---- MODULE Spec2Model ----
(***************************************************************************)
(* A model of the Obsidian note mover (src/obs_note_mover.py): link        *)
(* extraction from note text, attachment resolution against the vault      *)
(* index and the filesystem, the parallel scan and the sequential move     *)
(* pass of main(); and of the repository's other file tools: the undo     *)
(* history of the renamer (src/renamer.py), the sweep of the empty         *)
(* directory remover (src/red.py), and the thread-pool workers of the      *)
(* renamer, the file mover, the file sorter and the file organizer.        *)
(*                                                                         *)
(* Strings are sequences of one-character strings, so that the regular     *)
(* expressions, lower(), suffix and path splitting are computed and not    *)
(* assumed.  A path is the tuple pathlib calls `parts`: the root "/" and   *)
(* then one string per segment.                                            *)
(***************************************************************************)
EXTENDS Integers, Sequences, FiniteSets, TLC

VARIABLES
    files,        \* the regular files on disk: a set of absolute paths
    content,      \* note path -> text of the note (set at Init, read only)
    dest_dir,     \* main(): the destination directory
    phase,        \* "index" | "scan" | "move" | "done" (position in main / scan_notes_parallel)
    vault_index,  \* build_vault_index's dict: lowercased filename -> list of paths
    all_files,    \* scan_notes_parallel: the notes submitted to the pool, not yet completed
    results,      \* scan_notes_parallel: `notes`, in completion order
    notes,        \* main(): the sorted list returned by scan_notes_parallel
    i,            \* main(): the move loop's index (1-based, next note to move)
    moved_notes,  \* main(): counter
    moved_atts,   \* main(): counter
    errors,       \* main(): counter
    log,          \* per loop iteration: what the iteration did (observation of the run)
    faults,       \* number of I/O failures the environment has injected so far
    call,         \* function checks: the function applied and its arguments
    ret,          \* function checks: what it returned
    history,      \* renamer: HistoryManager.history, the renames the running session recorded
    workers,      \* thread pools: submitted file -> where its worker is, and the target it chose
    now           \* renamer: the clock datetime.now() reads

vars == <<files, content, dest_dir, phase, vault_index, all_files, results, notes,
          i, moved_notes, moved_atts, errors, log, faults, call, ret,
          history, workers, now>>

\* The state of the thread-pool tools.
poolVars == <<history, workers, now>>

\* No thread-pool tool is running.
PoolIdle ==
    /\ history = <<>>
    /\ workers = <<>>
    /\ now = 0

vaultVars == <<files, content, dest_dir, phase, vault_index, all_files, results, notes,
               i, moved_notes, moved_atts, errors, log, faults>>

callVars == <<call, ret>>

-----------------------------------------------------------------------------
(* Strings *)

\* str.startswith(prefix)
StartsWith(s, prefix) ==
    /\ Len(prefix) <= Len(s)
    /\ SubSeq(s, 1, Len(prefix)) = prefix

\* Position of the first occurrence of character c in s at or after `from`, 0 if none.
RECURSIVE FindChar(_, _, _)
FindChar(s, c, from) ==
    IF from > Len(s) THEN 0
    ELSE IF s[from] = c THEN from
    ELSE FindChar(s, c, from + 1)

\* Position of the last occurrence of character c in s (str.rfind, 1-based), 0 if none.
RECURSIVE RFindChar(_, _, _)
RFindChar(s, c, from) ==
    IF from < 1 THEN 0
    ELSE IF s[from] = c THEN from
    ELSE RFindChar(s, c, from - 1)

\* s.split(c)[0]
SplitFirst(s, c) ==
    LET k == FindChar(s, c, 1)
    IN  IF k = 0 THEN s ELSE SubSeq(s, 1, k - 1)

UpperLetters ==
    <<"A","B","C","D","E","F","G","H","I","J","K","L","M",
      "N","O","P","Q","R","S","T","U","V","W","X","Y","Z">>

LowerLetters ==
    <<"a","b","c","d","e","f","g","h","i","j","k","l","m",
      "n","o","p","q","r","s","t","u","v","w","x","y","z">>

Digits == <<"0","1","2","3","4","5","6","7","8","9">>

\* The characters str.strip() and the class \s treat as whitespace.
Whitespace == {" ", "\t", "\n", "\r"}

LowerChar(c) ==
    LET k == FindChar(UpperLetters, c, 1)
    IN  IF k = 0 THEN c ELSE LowerLetters[k]

\* str.lower()
Lower(s) == [k \in 1..Len(s) |-> LowerChar(s[k])]

\* str.strip(chars): drop leading and trailing characters that are in `chars`.
RECURSIVE LStrip(_, _)
LStrip(s, chars) ==
    IF s # <<>> /\ Head(s) \in chars THEN LStrip(Tail(s), chars) ELSE s

RECURSIVE RStrip(_, _)
RStrip(s, chars) ==
    IF s # <<>> /\ s[Len(s)] \in chars THEN RStrip(SubSeq(s, 1, Len(s) - 1), chars) ELSE s

Strip(s, chars) == RStrip(LStrip(s, chars), chars)

\* The characters of the model's alphabet in code-point order, and their codes.
AsciiOrder ==
    <<"\t", "\n", "\r", " ", "!", "\"", "#", "%", "(", ")", "-", ".", "/">>
    \o Digits \o <<":", "<", ">", "?", "@">> \o UpperLetters
    \o <<"[", "]", "_">> \o LowerLetters \o <<"|">>

AsciiCodes ==
    <<9, 10, 13, 32, 33, 34, 35, 37, 40, 41, 45, 46, 47>>
    \o [k \in 1..10 |-> 47 + k] \o <<58, 60, 62, 63, 64>> \o [k \in 1..26 |-> 64 + k]
    \o <<91, 93, 95>> \o [k \in 1..26 |-> 96 + k] \o <<124>>

\* ord(c)
Ord(c) == AsciiCodes[FindChar(AsciiOrder, c, 1)]

\* Python's str `<`: lexicographic by code point, a proper prefix is smaller.
RECURSIVE StrLess(_, _)
StrLess(s, t) ==
    IF t = <<>> THEN FALSE
    ELSE IF s = <<>> THEN TRUE
    ELSE IF Head(s) = Head(t) THEN StrLess(Tail(s), Tail(t))
    ELSE Ord(Head(s)) < Ord(Head(t))

\* The decimal digits of a natural number (str(n)).
RECURSIVE IntToStr(_)
IntToStr(n) ==
    IF n < 10 THEN <<Digits[n + 1]>>
    ELSE IntToStr(n \div 10) \o <<Digits[(n % 10) + 1]>>

\* Concatenation of a sequence of sequences.
RECURSIVE Flatten(_)
Flatten(ss) == IF ss = <<>> THEN <<>> ELSE Head(ss) \o Flatten(Tail(ss))

\* The set of elements of a sequence.
Range(s) == {s[k] : k \in DOMAIN s}

\* All orderings of a finite set, as sequences without repetition.
RECURSIVE Orderings(_)
Orderings(S) ==
    IF S = {} THEN {<<>>}
    ELSE UNION {{<<x>> \o r : r \in Orderings(S \ {x})} : x \in S}

-----------------------------------------------------------------------------
(* Paths (pathlib.PurePosixPath) *)

\* The root part of an absolute path.
Root == <<"/">>

\* s.split(c): the pieces of s between occurrences of the character c.
RECURSIVE Split(_, _)
Split(s, c) ==
    LET k == FindChar(s, c, 1)
    IN  IF k = 0 THEN <<s>>
        ELSE <<SubSeq(s, 1, k - 1)>> \o Split(SubSeq(s, k + 1, Len(s)), c)

\* Path(s).parts: "" and "." segments are dropped, ".." is kept; an absolute
\* string gets the root part "/" (exactly two leading slashes give "//").
PathParts(s) ==
    LET segs == SelectSeq(Split(s, "/"), LAMBDA g : g # <<>> /\ g # <<".">>)
        root == IF ~StartsWith(s, <<"/">>) THEN <<>>
                ELSE IF StartsWith(s, <<"/", "/">>) /\ ~StartsWith(s, <<"/", "/", "/">>)
                     THEN <<<<"/", "/">>>>
                ELSE <<Root>>
    IN  root \o segs

IsAbsolute(p) == p # <<>> /\ Head(p) \in {Root, <<"/", "/">>}

\* dir / s for a directory path and a string: an absolute s replaces dir.
JoinPath(dir, s) ==
    LET lp == PathParts(s)
    IN  IF IsAbsolute(lp) THEN lp ELSE dir \o lp

\* Path.resolve() of an absolute path on a filesystem without symbolic links:
\* ".." removes the segment before it (and is dropped at the root), the root
\* becomes "/".
RECURSIVE ResolveSegs(_, _)
ResolveSegs(done, rest) ==
    IF rest = <<>> THEN done
    ELSE IF Head(rest) = <<".", ".">>
         THEN ResolveSegs(IF done = <<>> THEN <<>> ELSE SubSeq(done, 1, Len(done) - 1),
                          Tail(rest))
    ELSE ResolveSegs(Append(done, Head(rest)), Tail(rest))

Resolve(p) == <<Root>> \o ResolveSegs(<<>>, Tail(p))

\* Path.name: the last part, "" for a path that is only a root or empty.
Name(p) == IF p = <<>> \/ (Len(p) = 1 /\ IsAbsolute(p)) THEN <<>> ELSE p[Len(p)]

\* Path.parent of a path with at least one segment.
Parent(p) == SubSeq(p, 1, Len(p) - 1)

\* Path.suffix: from the last "." of the name, unless that "." is the first or
\* the last character of the name.
Suffix(p) ==
    LET name == Name(p)
        k == RFindChar(name, ".", Len(name))
    IN  IF 1 < k /\ k < Len(name) THEN SubSeq(name, k, Len(name)) ELSE <<>>

\* Path.stem: the name without its suffix.
Stem(p) ==
    LET name == Name(p)
        k == RFindChar(name, ".", Len(name))
    IN  IF 1 < k /\ k < Len(name) THEN SubSeq(name, 1, k - 1) ELSE name

\* Path `<`: the parts compared as lists of strings.
RECURSIVE PathLess(_, _)
PathLess(p, q) ==
    IF q = <<>> THEN FALSE
    ELSE IF p = <<>> THEN TRUE
    ELSE IF Head(p) = Head(q) THEN PathLess(Tail(p), Tail(q))
    ELSE StrLess(Head(p), Head(q))

\* Path.is_file() / Path.exists() for a path that is not a directory of the model.
IsFile(fs, p) == p \in fs

\* Whether p lies in directory d or below it.
Under(p, d) == Len(p) > Len(d) /\ SubSeq(p, 1, Len(d)) = d
-----------------------------------------------------------------------------
(* Regular expressions (Python's re: backtracking, greedy unless marked lazy). *)
(* A pattern is a sequence of items; Match gives the first match in the     *)
(* engine's priority order, which is the match re returns.                  *)

\* A literal character.
Lit(c) == [type |-> "lit", c |-> c]

\* A character class with a quantifier: chars (negated when neg), at least
\* min times, at most once unless many; greedy or lazy.
Rep(chars, neg, min, many, greedy) ==
    [type |-> "rep", chars |-> chars, neg |-> neg, min |-> min, many |-> many,
     greedy |-> greedy]

\* (?:body)?
Opt(body) == [type |-> "opt", body |-> body]

\* (?:a|b)
Alt(a, b) == [type |-> "alt", a |-> a, b |-> b]

\* (body): the capturing group
Cap(body) == [type |-> "cap", body |-> body]

\* ^ (without re.MULTILINE: the start of the string only)
Bol == [type |-> "bol"]

InClass(c, chars, neg) == IF neg THEN c \notin chars ELSE c \in chars

\* Number of consecutive characters of t from position p on that are in the class.
RECURSIVE RunLen(_, _, _, _)
RunLen(t, p, chars, neg) ==
    IF p <= Len(t) /\ InClass(t[p], chars, neg) THEN 1 + RunLen(t, p + 1, chars, neg) ELSE 0

\* Match(items, t, p, g): <<>> when items do not match t at position p, else
\* <<[end, g]>> for the first match found: end is the position after it and g
\* the text of the capturing group.
RECURSIVE Match(_, _, _, _)
RECURSIVE MatchRep(_, _, _, _, _, _, _)

\* Try the repetition counts n, n + step, ... up to `last`, in that order.
MatchRep(rest, t, p, g, n, step, last) ==
    IF (step < 0 /\ n < last) \/ (step > 0 /\ n > last) THEN <<>>
    ELSE LET r == Match(rest, t, p + n, g)
         IN  IF r # <<>> THEN r ELSE MatchRep(rest, t, p, g, n + step, step, last)

Match(items, t, p, g) ==
    IF items = <<>> THEN <<[end |-> p, g |-> g]>>
    ELSE
    LET h == Head(items)
        rest == Tail(items)
    IN  CASE h.type = "lit" ->
                IF p <= Len(t) /\ t[p] = h.c THEN Match(rest, t, p + 1, g) ELSE <<>>
          [] h.type = "rep" ->
                LET run == RunLen(t, p, h.chars, h.neg)
                    k == IF h.many \/ run = 0 THEN run ELSE 1
                IN  IF k < h.min THEN <<>>
                    ELSE IF h.greedy THEN MatchRep(rest, t, p, g, k, -1, h.min)
                    ELSE MatchRep(rest, t, p, g, h.min, 1, k)
          [] h.type = "opt" ->
                LET r == Match(h.body \o rest, t, p, g)
                IN  IF r # <<>> THEN r ELSE Match(rest, t, p, g)
          [] h.type = "alt" ->
                LET r == Match(h.a \o rest, t, p, g)
                IN  IF r # <<>> THEN r ELSE Match(h.b \o rest, t, p, g)
          [] h.type = "cap" ->
                Match(h.body \o <<[type |-> "capend", start |-> p]>> \o rest, t, p, g)
          [] h.type = "capend" ->
                Match(rest, t, p, SubSeq(t, h.start, p - 1))
          [] h.type = "bol" ->
                IF p = 1 THEN Match(rest, t, p, g) ELSE <<>>

\* pattern.findall(t) for a pattern with one capturing group: the group's text
\* of every match, scanning left to right, matches not overlapping.
RECURSIVE FindAllFrom(_, _, _)
FindAllFrom(re, t, p) ==
    IF p > Len(t) THEN <<>>
    ELSE LET r == Match(re, t, p, <<>>)
         IN  IF r = <<>> THEN FindAllFrom(re, t, p + 1)
             ELSE <<r[1].g>> \o FindAllFrom(re, t, IF r[1].end > p THEN r[1].end ELSE p + 1)

FindAll(re, t) == FindAllFrom(re, t, 1)

\* A wiki-link pattern without the group for the fragment.
WikiLinkNoFragment ==
    << Opt(<<Lit("!")>>), Lit("["), Lit("["),
       Cap(<<Rep({"]", "|", "#"}, TRUE, 1, TRUE, TRUE)>>),
       Opt(<<Lit("|"), Rep({"]", "#"}, TRUE, 1, TRUE, TRUE)>>),
       Lit("]"), Lit("]") >>

\* A markdown-link pattern without the group for the title.
MdLinkNoTitle ==
    << Opt(<<Lit("!")>>), Lit("["), Rep({"]"}, TRUE, 0, TRUE, TRUE), Lit("]"), Lit("("),
       Cap(<<Rep({"\"", " ", ")"}, TRUE, 1, TRUE, TRUE)>>),
       Lit(")") >>

\* r'!?\[\[([^\]|#]+)(?:\|[^\]]+)?(?:#[^\]]+)?\]\]'
WIKI_LINK_RE ==
    << Opt(<<Lit("!")>>), Lit("["), Lit("["),
       Cap(<<Rep({"]", "|", "#"}, TRUE, 1, TRUE, TRUE)>>),
       Opt(<<Lit("|"), Rep({"]"}, TRUE, 1, TRUE, TRUE)>>),
       Opt(<<Lit("#"), Rep({"]"}, TRUE, 1, TRUE, TRUE)>>),
       Lit("]"), Lit("]") >>

\* r'!?\[[^\]]*\]\(([^" \)]+)(?:\s+"[^"]*")?\)'
MD_LINK_RE ==
    << Opt(<<Lit("!")>>), Lit("["), Rep({"]"}, TRUE, 0, TRUE, TRUE), Lit("]"), Lit("("),
       Cap(<<Rep({"\"", " ", ")"}, TRUE, 1, TRUE, TRUE)>>),
       Opt(<<Rep(Whitespace, FALSE, 1, TRUE, TRUE), Lit("\""),
             Rep({"\""}, TRUE, 0, TRUE, TRUE), Lit("\"")>>),
       Lit(")") >>
-----------------------------------------------------------------------------
(* resolve_attachment *)

\* Optional[Path]: None.  Every path has at least its root part.
None == <<>>

HexDigits == Digits \o <<"a", "b", "c", "d", "e", "f">>

IsHex(c) == FindChar(HexDigits, LowerChar(c), 1) # 0

HexVal(c) == FindChar(HexDigits, LowerChar(c), 1) - 1

\* urllib.parse.unquote: every %XX with two hexadecimal digits becomes the
\* character with that code; any other "%" stays.  (A code outside the
\* model's alphabet stays undecoded: the model has no character for it.)
RECURSIVE Unquote(_)
Unquote(s) ==
    IF s = <<>> THEN <<>>
    ELSE IF Head(s) = "%" /\ Len(s) >= 3 /\ IsHex(s[2]) /\ IsHex(s[3])
              /\ FindChar(AsciiCodes, 16 * HexVal(s[2]) + HexVal(s[3]), 1) # 0
         THEN <<AsciiOrder[FindChar(AsciiCodes, 16 * HexVal(s[2]) + HexVal(s[3]), 1)]>>
              \o Unquote(SubSeq(s, 4, Len(s)))
    ELSE <<Head(s)>> \o Unquote(Tail(s))

\* "1. Basic cleaning": unquote, strip, cut at the first "#" and then at the first "?".
CleanLink(link) ==
    SplitFirst(SplitFirst(Strip(Unquote(link), Whitespace), "#"), "?")

\* proximity(p): the number of leading parts p shares with note_dir.
RECURSIVE proximity(_, _)
proximity(p, note_dir) ==
    IF p # <<>> /\ note_dir # <<>> /\ Head(p) = Head(note_dir)
    THEN 1 + proximity(Tail(p), Tail(note_dir))
    ELSE 0

\* max(candidates, key = proximity): the first candidate whose proximity is the largest.
MaxProximity(candidates, note_dir) ==
    LET best == CHOOSE k \in DOMAIN candidates :
                    /\ \A j \in DOMAIN candidates :
                          proximity(candidates[j], note_dir) <= proximity(candidates[k], note_dir)
                    /\ \A j \in 1..(k - 1) :
                          proximity(candidates[j], note_dir) < proximity(candidates[k], note_dir)
    IN  candidates[best]

\* A name-only lookup without the tie-break: the first candidate is returned.
IndexLookupFirst(link, note_dir, index) ==
    LET lower_name == Lower(Name(PathParts(link)))
    IN  IF lower_name \in DOMAIN index THEN index[lower_name][1] ELSE None

\* A name-only lookup in which the last of the closest candidates wins.
IndexLookupLastMax(link, note_dir, index) ==
    LET lower_name == Lower(Name(PathParts(link)))
    IN  IF lower_name \in DOMAIN index
        THEN LET candidates == index[lower_name]
                 best == CHOOSE k \in DOMAIN candidates :
                            /\ \A j \in DOMAIN candidates :
                                  proximity(candidates[j], note_dir)
                                      <= proximity(candidates[k], note_dir)
                            /\ \A j \in (k + 1)..Len(candidates) :
                                  proximity(candidates[j], note_dir)
                                      < proximity(candidates[k], note_dir)
             IN  candidates[best]
        ELSE None

\* A name-only lookup whose key is the filename as the link spells it.
IndexLookupCaseSensitive(link, note_dir, index) ==
    LET name == Name(PathParts(link))
    IN  IF name \in DOMAIN index
        THEN LET candidates == index[name]
             IN  IF Len(candidates) > 1
                 THEN MaxProximity(candidates, note_dir)
                 ELSE candidates[1]
        ELSE None

\* A name-only lookup that gives note_dir/link when the index has no such name.
IndexLookupOrLink(link, note_dir, index) ==
    LET lower_name == Lower(Name(PathParts(link)))
    IN  IF lower_name \in DOMAIN index
        THEN LET candidates == index[lower_name]
             IN  IF Len(candidates) > 1
                 THEN MaxProximity(candidates, note_dir)
                 ELSE candidates[1]
        ELSE Resolve(JoinPath(note_dir, link))

\* A name-only lookup that uses a candidate up: once a call has returned, the
\* best candidate is no longer offered and the last one indexed is given.
IndexLookupConsuming(link, note_dir, index) ==
    LET lower_name == Lower(Name(PathParts(link)))
    IN  IF lower_name \in DOMAIN index
        THEN LET candidates == index[lower_name]
             IN  IF Len(candidates) > 1
                 THEN IF ret = <<>> THEN MaxProximity(candidates, note_dir)
                      ELSE candidates[Len(candidates)]
                 ELSE candidates[1]
        ELSE None

\* "Strategy 4": the name-only lookup in the index.
IndexLookup(link, note_dir, index) ==
    LET lower_name == Lower(Name(PathParts(link)))
    IN  IF lower_name \in DOMAIN index
        THEN LET candidates == index[lower_name]
             IN  IF Len(candidates) > 1
                 THEN MaxProximity(candidates, note_dir)
                 ELSE candidates[1]
        ELSE None

\* A strategy chain that tries the vault root before the note's directory.
ResolveCleanVaultFirst(link, note_dir, vault_root, index, fs) ==
    LET path_rel == Resolve(JoinPath(note_dir, link))
        path_vault == Resolve(JoinPath(vault_root, link))
    IN  IF IsFile(fs, path_vault) THEN path_vault
        ELSE IF IsFile(fs, path_rel) THEN path_rel
        ELSE IndexLookup(link, note_dir, index)

\* The strategy chain on a cleaned, non-empty link.
ResolveClean(link, note_dir, vault_root, index, fs) ==
    LET path_rel == Resolve(JoinPath(note_dir, link))
        path_vault == Resolve(JoinPath(vault_root, link))
    IN  IF IsFile(fs, path_rel) THEN path_rel
        ELSE IF IsFile(fs, path_vault) THEN path_vault
        ELSE IndexLookup(link, note_dir, index)

resolve_attachment(raw, note_dir, vault_root, index, fs) ==
    LET link == CleanLink(raw)
    IN  IF link = <<>> THEN None
        ELSE ResolveClean(link, note_dir, vault_root, index, fs)
-----------------------------------------------------------------------------
(* Front matter, find_attachments, process_note *)

\* r'(?:^|\s)#([\w-]+)'
WordChars == Range(UpperLetters) \cup Range(LowerLetters) \cup Range(Digits) \cup {"_"}

\* A tag pattern without the group (?:^|\s) before the "#".
TagNoBoundary ==
    << Lit("#"), Cap(<<Rep(WordChars \cup {"-"}, FALSE, 1, TRUE, TRUE)>>) >>

TAG_RE ==
    << Alt(<<Bol>>, <<Rep(Whitespace, FALSE, 1, FALSE, TRUE)>>), Lit("#"),
       Cap(<<Rep(WordChars \cup {"-"}, FALSE, 1, TRUE, TRUE)>>) >>

\* r'^---\s*\n(.*?)\n---\s*\n' with re.DOTALL
FRONTMATTER_RE ==
    << Bol, Lit("-"), Lit("-"), Lit("-"), Rep(Whitespace, FALSE, 0, TRUE, TRUE), Lit("\n"),
       Cap(<<Rep({}, TRUE, 0, TRUE, FALSE)>>),
       Lit("\n"), Lit("-"), Lit("-"), Lit("-"), Rep(Whitespace, FALSE, 0, TRUE, TRUE),
       Lit("\n") >>

\* FRONTMATTER_RE.match(text): <<>> or <<the block between the --- lines>>.
FrontmatterBlock(t) ==
    LET r == Match(FRONTMATTER_RE, t, 1, <<>>)
    IN  IF r = <<>> THEN <<>> ELSE <<r[1].g>>

\* Values yaml.safe_load returns: a string, a list, a mapping (its items in
\* document order), anything else; or the load raises.
YStr(s) == [kind |-> "str", s |-> s]
YList(items) == [kind |-> "list", items |-> items]
YDict(items) == [kind |-> "dict", items |-> items]
YOther == [kind |-> "other"]
YError == [kind |-> "error"]

\* Keys of a mapping: a string, or a value that is no string (YAML loads the
\* key of "1: a" as the integer 1).
YKey(s) == [kind |-> "str", s |-> s]
YIntKey == [kind |-> "int", s |-> <<>>]

\* The front-matter blocks of the model with what PyYAML loads from each:
\*   cover: x.p            tags: t             tags: [u, t]
\*   cover: "[[x.p]]"      tags: "#t"          tags: [u, 3]     (3 loads as an integer)
\*   a: [b                 (unclosed flow sequence: the load raises)
YamlDocs ==
    << [block |-> <<"c","o","v","e","r",":"," ","x",".","p">>,
        value |-> YDict(<< [key |-> YKey(<<"c","o","v","e","r">>), value |-> YStr(<<"x",".","p">>)] >>)],
       [block |-> <<"c","o","v","e","r",":"," ","\"","[","[","x",".","p","]","]","\"">>,
        value |-> YDict(<< [key |-> YKey(<<"c","o","v","e","r">>),
                            value |-> YStr(<<"[","[","x",".","p","]","]">>)] >>)],
       [block |-> <<"t","a","g","s",":"," ","t">>,
        value |-> YDict(<< [key |-> YKey(<<"t","a","g","s">>), value |-> YStr(<<"t">>)] >>)],
       [block |-> <<"t","a","g","s",":"," ","[","u",","," ","t","]">>,
        value |-> YDict(<< [key |-> YKey(<<"t","a","g","s">>),
                            value |-> YList(<<YStr(<<"u">>), YStr(<<"t">>)>>)] >>)],
       [block |-> <<"t","a","g","s",":"," ","\"","#","t","\"">>,
        value |-> YDict(<< [key |-> YKey(<<"t","a","g","s">>), value |-> YStr(<<"#","t">>)] >>)],
       [block |-> <<"t","a","g","s",":"," ","[","u",","," ","3","]">>,
        value |-> YDict(<< [key |-> YKey(<<"t","a","g","s">>),
                            value |-> YList(<<YStr(<<"u">>), YOther>>)] >>)],
       [block |-> <<"a",":"," ","[","b">>, value |-> YError] >>

\* yaml.safe_load(block).  A block the table does not list loads as something
\* that is not a mapping.
yaml_safe_load(block) ==
    IF \E k \in DOMAIN YamlDocs : YamlDocs[k].block = block
    THEN YamlDocs[CHOOSE k \in DOMAIN YamlDocs : YamlDocs[k].block = block].value
    ELSE YOther

\* sub in s
Contains(s, sub) ==
    \E k \in 1..(Len(s) - Len(sub) + 1) : SubSeq(s, k, k + Len(sub) - 1) = sub

target_keys ==
    { <<"i","m","a","g","e">>, <<"c","o","v","e","r">>, <<"b","a","n","n","e","r">>,
      <<"f","i","l","e">>, <<"a","t","t","a","c","h","m","e","n","t">>,
      <<"t","h","u","m","b","n","a","i","l">> }

\* The strings a front-matter value contributes: itself, or its string elements.
StringsOf(value) ==
    IF value.kind = "str" THEN <<value.s>>
    ELSE IF value.kind = "list"
         THEN LET strs == SelectSeq(value.items, LAMBDA v : v.kind = "str")
              IN  [k \in DOMAIN strs |-> strs[k].s]
    ELSE <<>>

\* The items the loop of lines 107-116 gets through: key.lower() raises on a
\* key that is no string, and the except clause (line 117) ends the loop there.
ItemsBeforeRaise(items) ==
    LET bad == {k \in DOMAIN items : items[k].key.kind # "str"}
    IN  IF bad = {} THEN items
        ELSE SubSeq(items, 1, (CHOOSE k \in bad : \A j \in bad : k <= j) - 1)

\* Lines 102-118 on the loaded data: the links collected.
FrontmatterLinks(data) ==
    IF data.kind # "dict" THEN <<>>
    ELSE LET hits == SelectSeq(ItemsBeforeRaise(data.items),
                         LAMBDA it : \E tk \in target_keys : Contains(Lower(it.key.s), tk))
             vals == Flatten([k \in DOMAIN hits |-> StringsOf(hits[k].value)])
         IN  [k \in DOMAIN vals |-> Strip(vals[k], {"[", "]", "!"})]

extract_frontmatter_links(t) ==
    LET m == FrontmatterBlock(t)
    IN  IF m = <<>> THEN <<>> ELSE FrontmatterLinks(yaml_safe_load(m[1]))

\* The raw links find_attachments collects, in its order.
RawLinks(t) ==
    FindAll(WIKI_LINK_RE, t) \o FindAll(MD_LINK_RE, t) \o extract_frontmatter_links(t)

ExternalPrefixes ==
    { <<"h","t","t","p",":","/","/">>, <<"h","t","t","p","s",":","/","/">>,
      <<"/","/">>, <<"m","a","i","l","t","o",":">> }

\* link.startswith(("http://", "https://", "//", "mailto:"))
IsExternal(link) == \E pre \in ExternalPrefixes : StartsWith(link, pre)

DotMd == <<".", "m", "d">>

\* find_attachments' loop without the test for external prefixes (line 133).
AttachmentOfNoExternalFilter(link, note_dir, vault_root, index, fs) ==
    LET resolved == resolve_attachment(link, note_dir, vault_root, index, fs)
    IN  IF resolved # None /\ Lower(Suffix(resolved)) # DotMd THEN resolved ELSE None

\* find_attachments' loop without the test of the suffix (line 138).
AttachmentOfNoMdFilter(link, note_dir, vault_root, index, fs) ==
    IF IsExternal(link) THEN None
    ELSE resolve_attachment(link, note_dir, vault_root, index, fs)

\* The loop of find_attachments on one link: the path it appends, None if it appends nothing.
AttachmentOf(link, note_dir, vault_root, index, fs) ==
    IF IsExternal(link) THEN None
    ELSE LET resolved == resolve_attachment(link, note_dir, vault_root, index, fs)
         IN  IF resolved # None /\ Lower(Suffix(resolved)) # DotMd THEN resolved ELSE None

\* find_attachments: set(attachments); the order of the returned list is the
\* set's iteration order, which the caller of this operator chooses.
find_attachments(t, note_dir, vault_root, index, fs) ==
    LET links == RawLinks(t)
    IN  {AttachmentOf(links[k], note_dir, vault_root, index, fs) : k \in DOMAIN links}
            \ {None}

\* The candidate tags without lines 152-166: the inline tags alone.
NoteTagsInlineOnly(t) == Range(FindAll(TAG_RE, t))

\* The candidate tags of a note: inline tags and front-matter tags.
NoteTags(t) ==
    LET inline == Range(FindAll(TAG_RE, t))
        m == FrontmatterBlock(t)
        data == yaml_safe_load(m[1])
        tagItems == SelectSeq(data.items, LAMBDA it : it.key = YKey(<<"t","a","g","s">>))
        \* a mapping holds a key once; data.get('tags', [])
        fm == IF m = <<>> \/ data.kind # "dict" \/ tagItems = <<>> THEN <<>>
              ELSE StringsOf(tagItems[1].value)
    IN  inline \cup {Strip(fm[k], {"#"}) : k \in DOMAIN fm}
-----------------------------------------------------------------------------
(* The vault of the model *)

\* Most I/O failures the environment injects into one run.
MaxFaults == 1

sV == <<"v">>
sA == <<"a">>
sB == <<"b">>
sC == <<"c">>
sIn == <<"i", "n">>
sD == <<"d">>
sXP == <<"x", ".", "p">>
sXPUpper == <<"X", ".", "P">>
sNMd == <<"n", ".", "m", "d">>
sMMd == <<"m", ".", "m", "d">>
sN1Md == <<"n", "_", "1", ".", "m", "d">>
sGit == <<".", "g", "i", "t">>
sGithub == <<".", "g", "i", "t", "h", "u", "b">>

\* main(): source_dir, the vault root.
source_dir == <<Root, sV>>

\* main(): the destinations of the model: the inbox inside the vault (the
\* default layout, Sync/obs-vault-minimal/00-Inbox) and a directory outside it.
DestDirs == { <<Root, sV, sIn>>, <<Root, sD>> }

\* main(): the tags the user asked for ("t").
target_tags == { <<"t">> }

\* main(): the default exclusions.
excluded_dirs ==
    { <<".","o","b","s","i","d","i","a","n">>, <<".","g","i","t">>, <<".","t","r","a","s","h">> }

\* The two notes every vault of the model holds.
NoteA == <<Root, sV, sA, sNMd>>
NoteM == <<Root, sV, sMMd>>

\* Most files a vault of the model holds besides its two notes.
MaxOther == 2

\* Files a vault of the model may hold besides: x.p at the vault root, beside
\* NoteA, and below NoteA's directory; dest may hold an x.p, an n.md and an
\* n_1.md before the run.
OtherFiles(dest) ==
    { <<Root, sV, sXP>>, <<Root, sV, sA, sXP>>, <<Root, sV, sA, sC, sXP>>,
      dest \o <<sXP>>, dest \o <<sNMd>>, dest \o <<sN1Md>> }

\* "#t " and "#u ": a line of text with the tag asked for, and with another tag.
TagT == <<"#", "t", " ">>
TagU == <<"#", "u", " ">>

Wiki(target) == <<"[", "[">> \o target \o <<"]", "]">>
Embed(target) == <<"!">> \o Wiki(target)
MdLink(target) == <<"[", "l", "]", "(">> \o target \o <<")">>

\* The texts NoteA may have.
TextsA ==
    { TagT \o Embed(sXP),                                         \* #t ![[x.p]]
      TagT \o Wiki(<<"c", "/">> \o sXP),                          \* #t [[c/x.p]]
      TagT \o MdLink(<<"h","t","t","p",":","/","/">> \o sXP)      \* #t [l](http://x.p)
           \o Wiki(<<"h","t","t","p","s",":","/","/">> \o sXP)    \*    [[https://x.p]]
           \o MdLink(<<"m","a","i","l","t","o",":","/">> \o sXP), \*    [l](mailto:/x.p)
      TagT \o Wiki(sMMd) \o Wiki(sNMd),                           \* #t [[m.md]][[n.md]]
      TagT \o Wiki(sXP) \o MdLink(<<"c", "/">> \o sXP),           \* #t [[x.p]][l](c/x.p)
      TagT \o Wiki(sXP) \o Wiki(<<"y", ".", "p">>),               \* #t [[x.p]][[y.p]]
      TagU \o Wiki(sXP) }                                         \* #u [[x.p]]

\* The texts NoteM may have.
TextsM ==
    { TagT \o Wiki(sXP),                                          \* #t [[x.p]]
      TagT \o MdLink(<<"/", "/">> \o <<"v", "/">> \o sXP) \o Wiki(<<"z", "/">> \o sMMd),
                                                                  \* #t [l](//v/x.p)[[z/m.md]]
      TagU }                                                      \* #u

\* The text of a note n.md that lies in dest before the run: "#t".
TextInDest == <<"#", "t">>

\* The text of a file n_1.md that lies in dest before the run: "#u ".
TextOfSuffixed == <<"#", "u", " ">>

\* rglob("*.md"): the files whose name ends in ".md".
IsMd(p) ==
    LET name == Name(p)
    IN  Len(name) >= 3 /\ SubSeq(name, Len(name) - 2, Len(name)) = DotMd

\* An exclusion test by substring: a segment that holds an excluded name excludes.
IsExcludedSubstring(p, excluded) ==
    \E k \in DOMAIN p : \E excl \in excluded : Contains(p[k], excl)

\* any(excl in p.parts for excl in excluded)
IsExcluded(p, excluded) == \E k \in DOMAIN p : p[k] \in excluded
-----------------------------------------------------------------------------
(* build_vault_index, process_note, scan_notes_parallel *)

\* build_vault_index over the files in the order rglob yields them.
IndexOf(walk) ==
    LET keys == {Lower(Name(walk[k])) : k \in DOMAIN walk}
    IN  [key \in keys |-> SelectSeq(walk, LAMBDA p : Lower(Name(p)) = key)]

\* build_vault_index(source_dir, excluded), rglob yielding the files of walk
\* in this order.
build_vault_index(walk, excluded) ==
    IndexOf(SelectSeq(walk, LAMBDA p : ~IsExcluded(p, excluded)))

\* The files build_vault_index indexes: under source_dir, no excluded segment.
Indexed(fs, excluded) == {p \in fs : Under(p, source_dir) /\ ~IsExcluded(p, excluded)}

\* The indexes build_vault_index can return: rglob yields the files in an
\* order the filesystem decides.
PossibleIndexes(fs, excluded) == {IndexOf(walk) : walk \in Orderings(Indexed(fs, excluded))}

\* scan_notes_parallel: all_files.
NoteFiles(fs, excluded) ==
    {p \in fs : Under(p, source_dir) /\ IsMd(p) /\ ~IsExcluded(p, excluded)}

\* The text has a front-matter block that yaml.safe_load raises on, or loads
\* as something that is no mapping.
MalformedFrontmatter(t) ==
    LET m == FrontmatterBlock(t)
    IN  m # <<>> /\ yaml_safe_load(m[1]).kind # "dict"

\* A process_note in which a front-matter block that is no mapping is fatal:
\* the note gives no record.
ProcessNoteFrontmatterFatal(note_path, c, tags, vault_root, index, fs) ==
    IF ~c.readable \/ MalformedFrontmatter(c.text) THEN {}
    ELSE LET matched == tags \cap NoteTags(c.text)
         IN  IF matched = {} THEN {}
             ELSE {[path |-> note_path, matched_tags |-> matched, attachments |-> atts,
                    size |-> Len(c.text)] :
                   atts \in Orderings(find_attachments(c.text, Parent(note_path), vault_root,
                                                       index, fs))}

\* A process_note that gives a record for a note it could not read.
ProcessNoteUnreadableListed(note_path, c, tags, vault_root, index, fs) ==
    IF ~c.readable
    THEN {[path |-> note_path, matched_tags |-> tags, attachments |-> <<>>, size |-> 0]}
    ELSE LET matched == tags \cap NoteTags(c.text)
         IN  IF matched = {} THEN {}
             ELSE {[path |-> note_path, matched_tags |-> matched, attachments |-> atts,
                    size |-> Len(c.text)] :
                   atts \in Orderings(find_attachments(c.text, Parent(note_path), vault_root,
                                                       index, fs))}

\* A process_note without the test "if not matched" (line 170): every
\* readable note gets a record.
ProcessNoteNoTagTest(note_path, c, tags, vault_root, index, fs) ==
    IF ~c.readable THEN {}
    ELSE {[path |-> note_path, matched_tags |-> tags \cap NoteTags(c.text),
           attachments |-> atts, size |-> Len(c.text)] :
          atts \in Orderings(find_attachments(c.text, Parent(note_path), vault_root,
                                              index, fs))}

\* process_note: the note's text is read (the read may raise), its tags are
\* matched, and only a note with a matched tag gets its attachments resolved.
\* The NoteMetadata records it can return, one for each order list(set(...))
\* can give the attachments; the empty set stands for its result None.
process_note(note_path, c, tags, vault_root, index, fs) ==
    IF ~c.readable THEN {}
    ELSE LET matched == tags \cap NoteTags(c.text)
         IN  IF matched = {} THEN {}
             ELSE {[path |-> note_path, matched_tags |-> matched, attachments |-> atts,
                    size |-> Len(c.text)] :
                   atts \in Orderings(find_attachments(c.text, Parent(note_path), vault_root,
                                                       index, fs))}

\* The notes as the futures completed, not sorted.
AsCompleted(rs) == rs

\* sorted(notes, key = path): insertion into a sorted list, equal keys kept in order.
RECURSIVE SortedByPath(_)
SortedByPath(rs) ==
    IF rs = <<>> THEN <<>>
    ELSE LET last == rs[Len(rs)]
             front == SortedByPath(SubSeq(rs, 1, Len(rs) - 1))
             before == SelectSeq(front, LAMBDA r : ~PathLess(last.path, r.path))
             after == SelectSeq(front, LAMBDA r : PathLess(last.path, r.path))
         IN  before \o <<last>> \o after
-----------------------------------------------------------------------------
(* The run: scan_notes_parallel and main *)

Readable(t) == [readable |-> TRUE, text |-> t]
Unreadable == [readable |-> FALSE, text |-> <<>>]

\* The state when main() calls scan_notes_parallel: a vault with its two notes
\* and at most MaxOther other files, and a destination directory.
Init ==
    /\ dest_dir \in DestDirs
    /\ \E others \in SUBSET OtherFiles(dest_dir) :
          /\ Cardinality(others) <= MaxOther
          /\ files = {NoteA, NoteM} \cup others
    /\ \E ta \in TextsA, cm \in {Readable(t) : t \in TextsM} \cup {Unreadable} :
          content = [p \in {NoteA, NoteM, dest_dir \o <<sNMd>>, dest_dir \o <<sN1Md>>} |->
                        IF p = NoteA THEN Readable(ta)
                        ELSE IF p = NoteM THEN cm
                        ELSE IF p = dest_dir \o <<sNMd>> THEN Readable(TextInDest)
                        ELSE Readable(TextOfSuffixed)]
    /\ phase = "index"
    /\ vault_index = <<>>
    /\ all_files = {}
    /\ results = <<>>
    /\ notes = <<>>
    /\ i = 1
    /\ moved_notes = 0
    /\ moved_atts = 0
    /\ errors = 0
    /\ log = <<>>
    /\ faults = 0
    /\ call = <<>>
    /\ ret = <<>>
    /\ PoolIdle

\* scan_notes_parallel, lines 204-217: the index is built, the notes are listed
\* and submitted to the pool.
BuildIndex ==
    /\ phase = "index"
    /\ vault_index' \in PossibleIndexes(files, excluded_dirs)
    /\ all_files' = NoteFiles(files, excluded_dirs)
    /\ phase' = "scan"
    /\ UNCHANGED <<files, content, dest_dir, results, notes, i, moved_notes, moved_atts,
                   errors, log, faults, call, ret>>
    /\ UNCHANGED poolVars

\* One future completes (as_completed): its result, unless None, is appended.
ProcessNote(p) ==
    /\ phase = "scan"
    /\ p \in all_files
    /\ LET rs == process_note(p, content[p], target_tags, source_dir, vault_index, files)
       IN  IF rs = {} THEN results' = results
           ELSE \E r \in rs : results' = Append(results, r)
    /\ all_files' = all_files \ {p}
    /\ UNCHANGED <<files, content, dest_dir, phase, vault_index, notes, i, moved_notes,
                   moved_atts, errors, log, faults, call, ret>>
    /\ UNCHANGED poolVars

\* scan_notes_parallel returns sorted(notes); main() stops when it is empty,
\* else shows the preview and asks.
FinishScan ==
    /\ phase = "scan"
    /\ all_files = {}
    /\ notes' = SortedByPath(results)
    /\ phase' = IF results = <<>> THEN "done" ELSE "confirm"
    /\ UNCHANGED <<files, content, dest_dir, vault_index, all_files, results, i,
                   moved_notes, moved_atts, errors, log, faults, call, ret>>
    /\ UNCHANGED poolVars

\* confirm_action("Proceed with move?")
Confirm(yes) ==
    /\ phase = "confirm"
    /\ phase' = IF yes THEN "move" ELSE "done"
    /\ UNCHANGED <<files, content, dest_dir, vault_index, all_files, results, notes, i,
                   moved_notes, moved_atts, errors, log, faults, call, ret>>
    /\ UNCHANGED poolVars
-----------------------------------------------------------------------------
(* main(): the move loop *)

\* shutil.move(src, dst) of a file to a path that is not a directory: a rename,
\* which replaces a file already at dst.
MoveFile(fs, src, dst) == (fs \ {src}) \cup {dst}

\* An attachment loop that treats an attachment no longer on disk as a
\* failure: it raises where line 348 skips.
RECURSIVE MoveAttsAbsentRaises(_, _, _, _, _)
MoveAttsAbsentRaises(atts, k, fs, dest, failAt) ==
    IF k > Len(atts)
    THEN [fs |-> fs, moved |-> {}, absent |-> {}, kept |-> {}, raised |-> FALSE]
    ELSE LET att == atts[k]
             dest_att == dest \o <<Name(att)>>
         IN  IF ~IsFile(fs, att)
             THEN [fs |-> fs, moved |-> {}, absent |-> {att}, kept |-> {}, raised |-> TRUE]
             ELSE IF IsFile(fs, dest_att)
             THEN LET r == MoveAttsAbsentRaises(atts, k + 1, fs, dest, failAt)
                  IN  [r EXCEPT !.kept = @ \cup {att}]
             ELSE IF failAt = k
             THEN [fs |-> fs, moved |-> {}, absent |-> {}, kept |-> {}, raised |-> TRUE]
             ELSE LET r == MoveAttsAbsentRaises(atts, k + 1, MoveFile(fs, att, dest_att),
                                                dest, failAt)
                  IN  [r EXCEPT !.moved = @ \cup {att}]

\* The attachment loop of one iteration (lines 347-353) from attachment k on.
\* failAt is the position of the attachment whose shutil.move raises (0: none).
\* Gives the files afterwards, the attachments moved, skipped as absent, and
\* left because dest already holds the name, and whether the loop raised.
RECURSIVE MoveAtts(_, _, _, _, _)
MoveAtts(atts, k, fs, dest, failAt) ==
    IF k > Len(atts)
    THEN [fs |-> fs, moved |-> {}, absent |-> {}, kept |-> {}, raised |-> FALSE]
    ELSE LET att == atts[k]
             dest_att == dest \o <<Name(att)>>
         IN  IF ~IsFile(fs, att)
             THEN LET r == MoveAtts(atts, k + 1, fs, dest, failAt)
                  IN  [r EXCEPT !.absent = @ \cup {att}]
             ELSE IF IsFile(fs, dest_att)
             THEN LET r == MoveAtts(atts, k + 1, fs, dest, failAt)
                  IN  [r EXCEPT !.kept = @ \cup {att}]
             ELSE IF failAt = k
             THEN [fs |-> fs, moved |-> {}, absent |-> {}, kept |-> {}, raised |-> TRUE]
             ELSE LET r == MoveAtts(atts, k + 1, MoveFile(fs, att, dest_att), dest, failAt)
                  IN  [r EXCEPT !.moved = @ \cup {att}]

\* Whether attachment k of the list reaches its shutil.move call when no
\* earlier call raises: only such a call can be the one that fails.
CallsMove(atts, k, fs, dest) ==
    LET before == MoveAtts(SubSeq(atts, 1, k - 1), 1, fs, dest, 0).fs
    IN  IsFile(before, atts[k]) /\ ~IsFile(before, dest \o <<Name(atts[k])>>)

\* dest_note of iteration n (lines 356-359).
DestNote(fs, dest, note_path, n) ==
    LET plain == dest \o <<Name(note_path)>>
    IN  IF IsFile(fs, plain)
        THEN dest \o <<Stem(note_path) \o <<"_">> \o IntToStr(n) \o Suffix(note_path)>>
        ELSE plain

\* except Exception: errors += 1
ErrorsAfter(count, raised) == IF raised THEN count + 1 ELSE count

\* A loop whose except clause is outside it: the first failure ends the loop.
AfterIterationAbort(k, n, raised) == IF raised \/ k = n THEN "done" ELSE "move"

\* Where main() is after iteration k of n: the except clause is inside the
\* loop, so the loop goes on to the next note whether or not the iteration raised.
AfterIteration(k, n, raised) == IF k = n THEN "done" ELSE "move"

\* One iteration of the loop over notes (lines 344-367).  The environment may
\* make one call of the iteration raise: shutil.move of attachment failAt, that
\* of the note (failAt = number of attachments + 1), or the print that follows
\* moved_notes += 1 inside the try block (failAt = number of attachments + 2);
\* shutil.move of a note that is no longer on disk raises by itself.
MoveNote(failAt) ==
    /\ phase = "move"
    /\ i <= Len(notes)
    /\ LET note == notes[i]
           n == Len(note.attachments)
           a == MoveAtts(note.attachments, 1, files, dest_dir, failAt)
           dest_note == DestNote(a.fs, dest_dir, note.path, i)
           gone == ~IsFile(a.fs, note.path)
           raised == a.raised \/ failAt = n + 1 \/ gone
           printRaised == ~raised /\ failAt = n + 2
       IN  /\ failAt \in 0..(n + 2)
           /\ failAt # 0 => faults < MaxFaults
           /\ failAt \in 1..n => CallsMove(note.attachments, failAt, files, dest_dir)
           /\ failAt \in {n + 1, n + 2} => ~gone
           /\ faults' = IF failAt # 0 THEN faults + 1 ELSE faults
           /\ files' = IF raised THEN a.fs ELSE MoveFile(a.fs, note.path, dest_note)
           /\ moved_atts' = moved_atts + Cardinality(a.moved)
           /\ moved_notes' = IF raised THEN moved_notes ELSE moved_notes + 1
           /\ phase' = AfterIteration(i, Len(notes), raised)
           /\ errors' = ErrorsAfter(errors, raised \/ printRaised)
           /\ log' = Append(log, [note |-> note.path,
                                  outcome |-> IF raised \/ printRaised THEN "error"
                                              ELSE "moved",
                                  relocated |-> ~raised,
                                  dest_note |-> IF raised THEN None ELSE dest_note,
                                  moved |-> a.moved, absent |-> a.absent, kept |-> a.kept,
                                  failAt |-> failAt,
                                  errors |-> ErrorsAfter(errors, raised \/ printRaised)])
    /\ i' = i + 1
    /\ UNCHANGED <<content, dest_dir, vault_index, all_files, results, notes, call, ret>>
    /\ UNCHANGED poolVars

Next ==
    \/ BuildIndex
    \/ \E p \in all_files : ProcessNote(p)
    \/ FinishScan
    \/ \E yes \in BOOLEAN : Confirm(yes)
    \/ \E failAt \in 0..4 : MoveNote(failAt)

Spec == Init /\ [][Next]_vars
-----------------------------------------------------------------------------
(* resolve_attachment applied to drawn inputs *)

\* Most files of a vault resolve_attachment is applied to.
MaxResolveFiles == 3

\* The files such a vault may hold: x.p at the root, in a, in b, in a/c, in an
\* excluded directory, and X.P in b.
ResolveFiles ==
    { <<Root, sV, sXP>>, <<Root, sV, sA, sXP>>, <<Root, sV, sB, sXP>>,
      <<Root, sV, sA, sC, sXP>>, <<Root, sV, sB, sXPUpper>>,
      <<Root, sV, <<".","g","i","t">>, sXP>> }

\* The links: x.p, c/x.p, X.P, ../x.p, z/x.p, y.p
ResolveLinks ==
    { sXP, <<"c", "/">> \o sXP, sXPUpper, <<".", ".", "/">> \o sXP, <<"z", "/">> \o sXP,
      <<"y", ".", "p">> }

\* The directories of the referencing note.
ResolveDirs == { <<Root, sV, sA>>, <<Root, sV>>, <<Root, sV, sB>> }

\* A vault as build_vault_index has just indexed it, and a link of a note in it.
InitResolve ==
    /\ \E fs \in SUBSET ResolveFiles :
          /\ Cardinality(fs) <= MaxResolveFiles
          /\ files = fs
    /\ vault_index \in PossibleIndexes(files, excluded_dirs)
    /\ call \in [link : ResolveLinks, note_dir : ResolveDirs]
    /\ ret = <<>>
    /\ phase = "call"
    /\ content = <<>>
    /\ dest_dir = <<>>
    /\ all_files = {}
    /\ results = <<>>
    /\ notes = <<>>
    /\ i = 1
    /\ moved_notes = 0
    /\ moved_atts = 0
    /\ errors = 0
    /\ log = <<>>
    /\ faults = 0
    /\ PoolIdle

\* resolved = resolve_attachment(link, note_dir, vault_root, vault_index)
CallResolve ==
    /\ phase = "call"
    /\ ret' = <<resolve_attachment(call.link, call.note_dir, source_dir, vault_index, files)>>
    /\ phase' = "returned"
    /\ UNCHANGED <<files, content, dest_dir, vault_index, all_files, results, notes, i,
                   moved_notes, moved_atts, errors, log, faults, call>>
    /\ UNCHANGED poolVars

\* The same call again, on the index and the files as they are.
CallResolveAgain ==
    /\ phase = "returned"
    /\ Len(ret) = 1
    /\ ret' = Append(ret, resolve_attachment(call.link, call.note_dir, source_dir,
                                             vault_index, files))
    /\ UNCHANGED <<files, content, dest_dir, phase, vault_index, all_files, results, notes,
                   i, moved_notes, moved_atts, errors, log, faults, call>>
    /\ UNCHANGED poolVars

NextResolve == CallResolve \/ CallResolveAgain

SpecResolve == InitResolve /\ [][NextResolve]_vars
-----------------------------------------------------------------------------
(* Properties of resolve_attachment (checked under SpecResolve) *)

\* The length of the common prefix of two paths, parts compared from the root.
CommonPrefixLen(p, d) ==
    LET n == IF Len(p) < Len(d) THEN Len(p) ELSE Len(d)
        agree == {m \in 0..n : \A k \in 1..m : p[k] = d[k]}
    IN  CHOOSE m \in agree : \A m2 \in agree : m2 <= m

\* note_dir/link and vault_root/link of the call, normalized.
CallRel == Resolve(JoinPath(call.note_dir, call.link))
CallVault == Resolve(JoinPath(source_dir, call.link))

\* The index list for the filename of the call's link, <<>> when the index has none.
CallCandidates ==
    LET key == Lower(Name(PathParts(call.link)))
    IN  IF key \in DOMAIN vault_index THEN vault_index[key] ELSE <<>>

\* Neither relative path is a file, so the index decides.
CallUsesIndex == CallRel \notin files /\ CallVault \notin files

\* C1: the strategies are tried in a fixed order and the first success wins:
\* when note_dir/link is a file it is the result, whatever vault_root/link and
\* the index hold; vault_root/link is the result when it is a file and
\* note_dir/link is not; the result comes from the index only when neither
\* relative path is a file.
C1_StrategyOrder ==
    phase = "returned" =>
        /\ CallRel \in files => ret[1] = CallRel
        /\ (CallRel \notin files /\ CallVault \in files) => ret[1] = CallVault
        /\ ret[1] \notin {CallRel, CallVault} => CallUsesIndex

\* C1 witness: note_dir/link and vault_root/link are two different files, the
\* index lookup alone would give a third file, and note_dir/link is returned.
C1_Witness ==
    /\ phase = "returned"
    /\ CallRel \in files
    /\ CallVault \in files
    /\ CallRel # CallVault
    /\ Len(CallCandidates) > 2
    /\ IndexLookup(call.link, call.note_dir, vault_index) \notin {CallRel, CallVault}
    /\ ret[1] = CallRel

\* C2: when the index decides and holds more than one candidate, the result is
\* a candidate whose common path prefix with the note's directory is at least as
\* long as every candidate's; with x.p in /v/a and in /v/b and the note in /v/a,
\* the result is /v/a/x.p.
C2_ProximityMax ==
    phase = "returned" =>
        /\ (CallUsesIndex /\ Len(CallCandidates) > 1) =>
              /\ ret[1] \in Range(CallCandidates)
              /\ \A c \in Range(CallCandidates) :
                    CommonPrefixLen(c, call.note_dir) <= CommonPrefixLen(ret[1], call.note_dir)
        /\ ( /\ files = {<<Root, sV, sA, sXP>>, <<Root, sV, sB, sXP>>}
             /\ call.note_dir = <<Root, sV, sA>>
             /\ call.link = sXP ) => ret[1] = <<Root, sV, sA, sXP>>

\* C2 witness: the index decides, and the candidate returned shares a longer
\* prefix with the note's directory than the first candidate of the list.
C2_Witness ==
    /\ phase = "returned"
    /\ CallUsesIndex
    /\ Len(CallCandidates) > 1
    /\ ret[1] \in Range(CallCandidates)
    /\ CommonPrefixLen(CallCandidates[1], call.note_dir)
          < CommonPrefixLen(ret[1], call.note_dir)

\* C3: when the index decides among several candidates, the result is the
\* first candidate of the index list among those with the longest common prefix.
C3_TieFirstInIndex ==
    (phase = "returned" /\ CallUsesIndex /\ Len(CallCandidates) > 1) =>
        \E k \in DOMAIN CallCandidates :
            /\ ret[1] = CallCandidates[k]
            /\ \A j \in DOMAIN CallCandidates :
                  CommonPrefixLen(CallCandidates[j], call.note_dir)
                      <= CommonPrefixLen(CallCandidates[k], call.note_dir)
            /\ \A j \in 1..(k - 1) :
                  CommonPrefixLen(CallCandidates[j], call.note_dir)
                      < CommonPrefixLen(CallCandidates[k], call.note_dir)

\* C3 witness: two candidates tie for the longest prefix, the one returned
\* comes first in the index list, and the other one sorts before it as a path.
C3_Witness ==
    /\ phase = "returned"
    /\ CallUsesIndex
    /\ \E k, j \in DOMAIN CallCandidates :
          /\ k < j
          /\ ret[1] = CallCandidates[k]
          /\ CommonPrefixLen(CallCandidates[j], call.note_dir)
                = CommonPrefixLen(CallCandidates[k], call.note_dir)
          /\ PathLess(CallCandidates[j], CallCandidates[k])
-----------------------------------------------------------------------------
(* Properties of the move loop (checked under Spec) *)

\* The error tally before iteration k of the loop.
ErrorsBefore(k) == IF k = 1 THEN 0 ELSE log[k - 1].errors

\* Iteration k found an attachment absent that an earlier iteration had moved.
RelocatedEarlier(k) ==
    {att \in log[k].absent : \E j \in 1..(k - 1) : att \in log[j].moved}

\* The file dest_dir holds under the name of p.
InDest(p) == dest_dir \o <<Name(p)>>

\* C4: when an earlier note's iteration has moved an attachment that a later
\* note lists too, the later iteration finds it absent and skips it without
\* raising: unless one of its own moves fails, the later note is moved and
\* the error tally stays what it was before the iteration.
C4_SharedAttachmentSkipped ==
    \A k \in DOMAIN log :
        (RelocatedEarlier(k) # {} /\ log[k].failAt = 0) =>
            /\ log[k].outcome = "moved"
            /\ log[k].dest_note # None
            /\ log[k].errors = ErrorsBefore(k)
            /\ RelocatedEarlier(k) \cap log[k].moved = {}

\* Both notes list /v/x.p; the first iteration moves it, the second finds it
\* absent, moves its note, and the run ends with no error.
C4_Witness ==
    /\ phase = "done"
    /\ Len(log) = 2
    /\ log[1].moved # {}
    /\ log[1].moved \subseteq log[2].absent
    /\ log[2].outcome = "moved"
    /\ log[2].dest_note \in files
    /\ errors = 0

\* C5: a note or an attachment whose name dest_dir already holds is moved all
\* the same, to dest_dir under its name with a numeric suffix before the
\* extension: nothing an iteration met such a collision for is left at its source.
C5_CollisionGetsSuffix ==
    \A k \in DOMAIN log :
        /\ \A att \in log[k].kept : att # InDest(att) => att \notin files
        /\ (log[k].outcome = "moved" /\ log[k].dest_note # InDest(log[k].note)) =>
               log[k].dest_note =
                   dest_dir \o <<Stem(log[k].note) \o <<"_">> \o IntToStr(k)
                                 \o Suffix(log[k].note)>>

\* C6: each failure of an iteration adds one to the error tally, and the loop
\* goes on: when the run is over every note of the sorted list has had its
\* iteration, in the list's order.
C6_FailureCountedQueueGoesOn ==
    /\ errors = Cardinality({k \in DOMAIN log : log[k].outcome = "error"})
    /\ \A k \in DOMAIN log :
          /\ log[k].note = notes[k].path
          /\ log[k].failAt # 0 => log[k].outcome = "error"
          /\ log[k].errors = ErrorsBefore(k) + (IF log[k].outcome = "error" THEN 1 ELSE 0)
    /\ phase = "move" => i <= Len(notes)
    /\ (phase = "done" /\ log # <<>>) => Len(log) = Len(notes)

\* The first note's iteration fails and the second note is moved.
C6_Witness ==
    /\ phase = "done"
    /\ Len(log) = 2
    /\ log[1].outcome = "error"
    /\ log[1].note \in files
    /\ log[2].outcome = "moved"
    /\ log[2].dest_note \in files
    /\ errors = 1
-----------------------------------------------------------------------------
(* Properties of find_attachments (checked under Spec) *)

\* The raw links of a listed note, and those that are not external.
LinksOf(r) == RawLinks(content[r.path].text)
InternalLinksOf(r) == SelectSeq(LinksOf(r), LAMBDA l : ~IsExternal(l))

\* What resolve_attachment gives for a raw link of a listed note.
ResolvedFor(r, l) == resolve_attachment(l, Parent(r.path), source_dir, vault_index, files)

\* C7: a raw link that starts with http://, https://, // or mailto: is dropped
\* before resolution: a note's attachments are resolutions of its other links
\* only, and a note with none but such links has an empty attachment list.
C7_ExternalDiscarded ==
    phase \in {"scan", "confirm"} =>
        \A k \in DOMAIN results :
            LET r == results[k]
                internal == InternalLinksOf(r)
            IN  /\ Range(r.attachments) \subseteq
                       {ResolvedFor(r, internal[j]) : j \in DOMAIN internal}
                /\ internal = <<>> => r.attachments = <<>>

\* A listed note all of whose links are external, one of which would resolve
\* to a file of the vault were it looked up.
C7_Witness ==
    /\ phase = "confirm"
    /\ \E k \in DOMAIN results :
          LET r == results[k]
              links == LinksOf(r)
          IN  /\ links # <<>>
              /\ InternalLinksOf(r) = <<>>
              /\ \E j \in DOMAIN links :
                    /\ ResolvedFor(r, links[j]) # None
                    /\ Lower(Suffix(ResolvedFor(r, links[j]))) # DotMd
              /\ r.attachments = <<>>

\* C8: no attachment of a listed note has the extension .md, whether the link
\* was resolved relative to the note, to the vault root, or through the index.
C8_NoMarkdownAttachment ==
    /\ \A k \in DOMAIN results : \A j \in DOMAIN results[k].attachments :
          Lower(Suffix(results[k].attachments[j])) # DotMd
    /\ \A k \in DOMAIN notes : \A j \in DOMAIN notes[k].attachments :
          Lower(Suffix(notes[k].attachments[j])) # DotMd

\* The strategy that resolves a raw link of a listed note: 1 relative to the
\* note, 2 relative to the vault root, 3 the index, 0 when it does not resolve.
StrategyFor(r, l) ==
    LET clean == CleanLink(l)
        rel == Resolve(JoinPath(Parent(r.path), clean))
        vault == Resolve(JoinPath(source_dir, clean))
    IN  IF ResolvedFor(r, l) = None THEN 0
        ELSE IF IsFile(files, rel) THEN 1
        ELSE IF IsFile(files, vault) THEN 2
        ELSE 3

\* Listed notes with links that resolve to .md files by each of the three
\* strategies, none of which is among the attachments.
C8_Witness ==
    /\ phase = "confirm"
    /\ \A s \in 1..3 :
          \E k \in DOMAIN results :
              LET r == results[k]
                  links == LinksOf(r)
              IN  \E j \in DOMAIN links :
                     /\ StrategyFor(r, links[j]) = s
                     /\ Lower(Suffix(ResolvedFor(r, links[j]))) = DotMd
                     /\ ResolvedFor(r, links[j]) \notin Range(r.attachments)
-----------------------------------------------------------------------------
(* Link extraction applied to drawn texts *)

\* Longest link target of the texts drawn.
MaxTarget == 2

\* The sequences over S of length 1 to n.
SeqsUpTo(S, n) == UNION {[1..k -> S] : k \in 1..n}

\* Characters of a wiki target (any but "]", "|", "#") and of a markdown
\* target (any but the double quote, the space and ")").
WikiTargetChars == {"a", "/", ".", " "}
MdTargetChars == {"a", "/", ".", "#"}

\* Aliases and fragments of a wiki link, labels of a markdown link; the empty
\* sequence stands for "none".
Aliases == { <<>>, <<"b">>, <<"b", " ", "c">> }
Fragments == { <<>>, <<"h">>, <<"h", " ", "1">> }
Labels == { <<>>, <<"l">>, <<"l", " ", "m">> }

\* What may follow a markdown target: nothing, or whitespace and a quoted title.
Titles ==
    { <<>> } \cup
    { ws \o <<"\"">> \o t \o <<"\"">> :
        ws \in { <<" ">>, <<" ", " ">>, <<"\t">> },
        t \in { <<>>, <<"T">>, <<"T", " ", "u">> } }

\* The text around the link.
Before == { <<>>, <<"x", " ">> }
After == { <<>>, <<" ", "y">> }

Bang(embed) == IF embed THEN <<"!">> ELSE <<>>

\* [[target]], [[target|alias]], [[target#frag]], [[target|alias#frag]],
\* [[target#frag|alias]], each with or without a leading "!".
WikiText(embed, target, alias, frag, fragFirst) ==
    LET aliasPart == IF alias = <<>> THEN <<>> ELSE <<"|">> \o alias
        fragPart == IF frag = <<>> THEN <<>> ELSE <<"#">> \o frag
    IN  Bang(embed) \o <<"[", "[">> \o target
            \o (IF fragFirst THEN fragPart \o aliasPart ELSE aliasPart \o fragPart)
            \o <<"]", "]">>

\* [label](target), [label](target "title"), each with or without a leading "!".
MdText(embed, label, target, title) ==
    Bang(embed) \o <<"[">> \o label \o <<"]", "(">> \o target \o title \o <<")">>

\* The calls drawn: a text holding one wiki link, or one markdown link.
WikiCalls ==
    { [kind |-> "wiki", target |-> target, alias |-> alias, frag |-> frag,
       fragFirst |-> fragFirst, title |-> <<>>, embed |-> embed,
       text |-> pre \o WikiText(embed, target, alias, frag, fragFirst) \o post] :
      target \in SeqsUpTo(WikiTargetChars, MaxTarget), alias \in Aliases, frag \in Fragments,
      fragFirst \in BOOLEAN, embed \in BOOLEAN, pre \in Before, post \in After }

MdCalls ==
    { [kind |-> "md", target |-> target, alias |-> <<>>, frag |-> <<>>,
       fragFirst |-> FALSE, title |-> title, embed |-> embed,
       text |-> pre \o MdText(embed, label, target, title) \o post] :
      target \in SeqsUpTo(MdTargetChars, MaxTarget), label \in Labels, title \in Titles,
      embed \in BOOLEAN, pre \in Before, post \in After }

InitExtract ==
    /\ call \in WikiCalls \cup MdCalls
    /\ ret = <<>>
    /\ phase = "call"
    /\ files = {}
    /\ vault_index = <<>>
    /\ content = <<>>
    /\ dest_dir = <<>>
    /\ all_files = {}
    /\ results = <<>>
    /\ notes = <<>>
    /\ i = 1
    /\ moved_notes = 0
    /\ moved_atts = 0
    /\ errors = 0
    /\ log = <<>>
    /\ faults = 0
    /\ PoolIdle

\* find_attachments, lines 126-130: the raw links of the text.
ExtractLinks ==
    /\ phase = "call"
    /\ ret' = RawLinks(call.text)
    /\ phase' = "returned"
    /\ UNCHANGED <<files, content, dest_dir, vault_index, all_files, results, notes, i,
                   moved_notes, moved_atts, errors, log, faults, call>>
    /\ UNCHANGED poolVars

NextExtract == ExtractLinks

SpecExtract == InitExtract /\ [][NextExtract]_vars
-----------------------------------------------------------------------------
(* Properties of link extraction (checked under SpecExtract) *)

\* C9: from a text holding one wiki link, [[target]] or ![[target]], with an
\* alias, a fragment, both in either order, or neither, the raw links
\* extracted are the target alone, exactly: alias and fragment are dropped.
C9_WikiTargetExtracted ==
    (phase = "returned" /\ call.kind = "wiki") => ret = <<call.target>>

\* An embed with a fragment followed by an alias: the target is what was extracted.
C9_Witness ==
    /\ phase = "returned"
    /\ call.kind = "wiki"
    /\ call.alias # <<>>
    /\ call.frag # <<>>
    /\ call.fragFirst
    /\ call.embed
    /\ ret = <<call.target>>

\* C10: from a text holding one markdown link or image, [label](target) or
\* [label](target "title"), with or without a leading "!", the raw links
\* extracted are the target alone, exactly: the quoted title is dropped.
C10_MdTargetExtracted ==
    (phase = "returned" /\ call.kind = "md") => ret = <<call.target>>

\* An image with a quoted title after its target: the target is what was extracted.
C10_Witness ==
    /\ phase = "returned"
    /\ call.kind = "md"
    /\ call.embed
    /\ \E k \in DOMAIN call.title : call.title[k] = "T"
    /\ ret = <<call.target>>
-----------------------------------------------------------------------------
(* The cleaning of resolve_attachment applied to drawn links *)

\* Longest raw link drawn.
MaxLink == 4

\* The characters of the raw links drawn: a filename character, a space, the
\* fragment and query marks, and what spells %20 (a space) and %23 ("#").
LinkChars == {"x", " ", "#", "?", "%", "2", "0", "3"}

\* The vault the cleaned link is resolved in: the file x beside the note.
CleanFiles == { <<Root, sV, sA, <<"x">> >> }
CleanNoteDir == <<Root, sV, sA>>

InitClean ==
    /\ call \in [link : SeqsUpTo(LinkChars, MaxLink)]
    /\ ret = <<>>
    /\ phase = "call"
    /\ files = CleanFiles
    /\ vault_index \in PossibleIndexes(files, excluded_dirs)
    /\ content = <<>>
    /\ dest_dir = <<>>
    /\ all_files = {}
    /\ results = <<>>
    /\ notes = <<>>
    /\ i = 1
    /\ moved_notes = 0
    /\ moved_atts = 0
    /\ errors = 0
    /\ log = <<>>
    /\ faults = 0
    /\ PoolIdle

\* resolve_attachment on the link: the link after "1. Basic cleaning"
\* (lines 49-50) and what the call returns.
CallClean ==
    /\ phase = "call"
    /\ ret' = [clean |-> CleanLink(call.link),
               resolved |-> resolve_attachment(call.link, CleanNoteDir, source_dir,
                                               vault_index, files)]
    /\ phase' = "returned"
    /\ UNCHANGED <<files, content, dest_dir, vault_index, all_files, results, notes, i,
                   moved_notes, moved_atts, errors, log, faults, call>>
    /\ UNCHANGED poolVars

NextClean == CallClean

SpecClean == InitClean /\ [][NextClean]_vars
-----------------------------------------------------------------------------
(* Properties of the cleaning (checked under SpecClean) *)

\* The cleaning in the order the specification gives: percent-decode, cut the
\* #fragment or ?query suffix, strip surrounding whitespace.
DecodeCutStrip(link) ==
    Strip(SplitFirst(SplitFirst(Unquote(link), "#"), "?"), Whitespace)

\* C11: a candidate is percent-decoded, then loses its #fragment or ?query
\* suffix, then its surrounding whitespace: the cleaned link has no leading or
\* trailing whitespace, and a candidate empty after these steps resolves to nothing.
C11_DecodeCutStrip ==
    phase = "returned" =>
        /\ ret.clean = DecodeCutStrip(call.link)
        /\ ret.clean = Strip(ret.clean, Whitespace)
        /\ ret.clean = <<>> => ret.resolved = None
-----------------------------------------------------------------------------
(* extract_frontmatter_links applied to drawn front matter *)

\* Most items of a front-matter mapping drawn.
MaxItems == 2

\* The keys drawn: three whose name holds a target substring (as it is, in
\* another case, inside a longer word), one whose name holds none, and a key
\* that is no string.
FmKeys ==
    { YKey(<<"c","o","v","e","r">>), YKey(<<"C","o","v","e","r">>),
      YKey(<<"p","r","o","f","i","l","e">>), YKey(<<"t","a","g","s">>), YIntKey }

\* The values drawn: strings plain and in wiki decoration, a list of strings
\* and of something else, a value that is neither.
FmValues ==
    { YStr(<<"x",".","p">>), YStr(<<"!","[","[","x",".","p","]","]">>),
      YList(<< YStr(<<"[","[","x",".","p","]","]">>), YOther, YStr(<<"y",".","p">>) >>),
      YOther }

\* The mappings drawn: up to MaxItems items, each key once.
FmItems ==
    { items \in UNION {[1..n -> [key : FmKeys, value : FmValues]] : n \in 0..MaxItems} :
        \A j, k \in DOMAIN items : j # k => items[j].key # items[k].key }

\* What yaml.safe_load may hand back: a mapping, or a string, a list, something
\* else; or it raises.
FmData ==
    { YDict(items) : items \in FmItems }
        \cup { YStr(<<"x",".","p">>), YList(<<YStr(<<"x",".","p">>)>>), YOther, YError }

InitFrontmatter ==
    /\ call \in [data : FmData]
    /\ ret = <<>>
    /\ phase = "call"
    /\ files = {}
    /\ vault_index = <<>>
    /\ content = <<>>
    /\ dest_dir = <<>>
    /\ all_files = {}
    /\ results = <<>>
    /\ notes = <<>>
    /\ i = 1
    /\ moved_notes = 0
    /\ moved_atts = 0
    /\ errors = 0
    /\ log = <<>>
    /\ faults = 0
    /\ PoolIdle

\* extract_frontmatter_links from line 101 on, yaml.safe_load having returned
\* call.data.
CollectFrontmatterLinks ==
    /\ phase = "call"
    /\ ret' = FrontmatterLinks(call.data)
    /\ phase' = "returned"
    /\ UNCHANGED <<files, content, dest_dir, vault_index, all_files, results, notes, i,
                   moved_notes, moved_atts, errors, log, faults, call>>
    /\ UNCHANGED poolVars

NextFrontmatter == CollectFrontmatterLinks

SpecFrontmatter == InitFrontmatter /\ [][NextFrontmatter]_vars
-----------------------------------------------------------------------------
(* Properties of extract_frontmatter_links (checked under SpecFrontmatter) *)

WikiDecoration == {"[", "]", "!"}

\* The key has a name, and the name holds a target substring in whatever case.
IsTargetKey(key) ==
    key.kind = "str" /\ \E tk \in target_keys : Contains(Lower(key.s), tk)

\* The string values of the mapping's target keys, in document order.
TargetKeyStrings(items) ==
    LET hits == SelectSeq(items, LAMBDA it : IsTargetKey(it.key))
    IN  Flatten([k \in DOMAIN hits |-> StringsOf(hits[k].value)])

\* C12: from front matter that parses to a mapping, the links collected are
\* the string values (the value, or the string elements of a list value) of
\* every key whose name holds image, cover, banner, file, attachment or
\* thumbnail in whatever case, each without its wiki decoration, and nothing
\* else.  (The values are compared with the decoration removed at both ends,
\* so that the statement does not turn on where "!", "[", "]" are stripped.)
C12_TargetKeyValuesCollected ==
    (phase = "returned" /\ call.data.kind = "dict") =>
        LET expected == TargetKeyStrings(call.data.items)
        IN  /\ Len(ret) = Len(expected)
            /\ \A k \in DOMAIN expected :
                  Strip(ret[k], WikiDecoration) = Strip(expected[k], WikiDecoration)
-----------------------------------------------------------------------------
(* process_note applied to drawn notes *)

\* "---\n" block "\n---\n"
Fm(block) == <<"-", "-", "-", "\n">> \o block \o <<"\n", "-", "-", "-", "\n">>

\* The front matter of the notes drawn: none, a block of YamlDocs, or the
\* block "z", which loads as a string and not as a mapping.
FrontMatters == { <<>>, Fm(<<"z">>) } \cup { Fm(YamlDocs[k].block) : k \in DOMAIN YamlDocs }

\* The bodies of the notes drawn:
\*   (empty)   #t   #u   #t and #u   x#t   [[x.p]]   #t [[x.p]]
\*   #t [[../.git/x.p]]   #t [[../../d/x.p]]
Bodies ==
    { <<>>, <<"#", "t">>, <<"#", "u">>, TagT \o Wiki(sXP),
      TagT \o Wiki(<<".", ".", "/">> \o sGit \o <<"/">> \o sXP),
      TagT \o Wiki(<<".", ".", "/", ".", ".", "/">> \o sD \o <<"/">> \o sXP),
      <<"#", "t", " ", "a", "n", "d", " ", "#", "u">>,
      <<"x", "#", "t">>, Wiki(sXP) }

\* The target tags drawn.
TargetTagSets == { {<<"t">>}, {<<"u">>}, {<<"t">>, <<"u">>}, {<<"d">>} }

\* The files when the note is processed: the note and an attachment beside
\* it, a file in an excluded directory of the vault, and a file outside the vault.
NoteVault ==
    { NoteA, <<Root, sV, sA, sXP>>, <<Root, sV, sGit, sXP>>, <<Root, sD, sXP>> }

InitNote ==
    /\ \E fm \in FrontMatters, body \in Bodies, tags \in TargetTagSets, readable \in BOOLEAN :
          call = [c |-> IF readable THEN Readable(fm \o body) ELSE Unreadable,
                  tags |-> tags]
    /\ ret = <<>>
    /\ phase = "call"
    /\ files = NoteVault
    /\ vault_index \in PossibleIndexes(files, excluded_dirs)
    /\ content = <<>>
    /\ dest_dir = <<>>
    /\ all_files = {}
    /\ results = <<>>
    /\ notes = <<>>
    /\ i = 1
    /\ moved_notes = 0
    /\ moved_atts = 0
    /\ errors = 0
    /\ log = <<>>
    /\ faults = 0
    /\ PoolIdle

\* process_note(note_path, tags, source_dir, vault_index): the records it can
\* return, the empty set for None.
CallProcessNote ==
    /\ phase = "call"
    /\ ret' = process_note(NoteA, call.c, call.tags, source_dir, vault_index, files)
    /\ phase' = "returned"
    /\ UNCHANGED <<files, content, dest_dir, vault_index, all_files, results, notes, i,
                   moved_notes, moved_atts, errors, log, faults, call>>
    /\ UNCHANGED poolVars

NextNote == CallProcessNote

SpecNote == InitNote /\ [][NextNote]_vars
-----------------------------------------------------------------------------
(* Properties of process_note (checked under SpecNote) *)

\* The text "#t and #u" of the specification's example ("#ready and #draft").
ExampleBody == <<"#", "t", " ", "a", "n", "d", " ", "#", "u">>

\* C13: for a readable note process_note returns a record if and only if the
\* note's candidate tags (inline tags and front-matter tags) and the target
\* tags have a tag in common, and the record's matched tags are exactly the
\* common tags, so never empty; "#t and #u" matches {t} with {t}, and does
\* not match {d}.
C13_RecordIffTagsMeet ==
    (phase = "returned" /\ call.c.readable) =>
        LET common == call.tags \cap NoteTags(call.c.text)
        IN  /\ ret # {} <=> common # {}
            /\ \A r \in ret : r.matched_tags = common /\ r.matched_tags # {}
            /\ (call.c.text = ExampleBody /\ call.tags = {<<"t">>}) =>
                   \A r \in ret : r.matched_tags = {<<"t">>}
            /\ (call.c.text = ExampleBody /\ call.tags = {<<"d">>}) => ret = {}

\* The note "#t and #u" with target {t}: a record whose matched tags are {t},
\* though the note has another tag too.
C13_Witness ==
    /\ phase = "returned"
    /\ call.c.readable
    /\ call.c.text = ExampleBody
    /\ call.tags = {<<"t">>}
    /\ \E r \in ret : r.matched_tags = {<<"t">>} /\ NoteTags(call.c.text) # r.matched_tags
-----------------------------------------------------------------------------
(* Inline tag extraction applied to drawn texts *)

\* Longest text drawn for the inline tags.
MaxTagText == 4

\* The characters of those texts: the tag mark, a letter, a digit, the hyphen,
\* the underscore, a space, and a character that is none of these.
TagTextChars == {"#", "a", "1", "-", "_", " ", "."}

InitTags ==
    /\ call \in [text : SeqsUpTo(TagTextChars, MaxTagText)]
    /\ ret = <<>>
    /\ phase = "call"
    /\ files = {}
    /\ vault_index = <<>>
    /\ content = <<>>
    /\ dest_dir = <<>>
    /\ all_files = {}
    /\ results = <<>>
    /\ notes = <<>>
    /\ i = 1
    /\ moved_notes = 0
    /\ moved_atts = 0
    /\ errors = 0
    /\ log = <<>>
    /\ faults = 0
    /\ PoolIdle

\* process_note, line 150: TAG_RE.findall(text)
ExtractTags ==
    /\ phase = "call"
    /\ ret' = FindAll(TAG_RE, call.text)
    /\ phase' = "returned"
    /\ UNCHANGED <<files, content, dest_dir, vault_index, all_files, results, notes, i,
                   moved_notes, moved_atts, errors, log, faults, call>>
    /\ UNCHANGED poolVars

NextTags == ExtractTags

SpecTags == InitTags /\ [][NextTags]_vars
-----------------------------------------------------------------------------
(* Properties of the inline tags (checked under SpecTags) *)

\* The longest run of characters of chars in t from position from on.
MaxRun(t, from, chars) ==
    LET n == CHOOSE n \in 0..Len(t) :
                 /\ \A k \in from..(from + n - 1) : k <= Len(t) /\ t[k] \in chars
                 /\ from + n > Len(t) \/ t[from + n] \notin chars
    IN  SubSeq(t, from, from + n - 1)

\* The positions of a "#" at the start of t or right after whitespace.
TagMarks(t) == {p \in DOMAIN t : t[p] = "#" /\ (p = 1 \/ t[p - 1] \in Whitespace)}

\* The tags of t by the rule: the non-empty maximal runs of chars after such a "#".
TagsByRule(t, chars) == {MaxRun(t, p + 1, chars) : p \in TagMarks(t)} \ {<<>>}

LettersDigitsHyphen == Range(UpperLetters) \cup Range(LowerLetters) \cup Range(Digits) \cup {"-"}

\* C14 as stated: the inline tags are the maximal runs of letters, digits and
\* hyphens after a "#" at the start of the text or after whitespace, and a
\* tag name holds no other character.
C14_TagsOfLettersDigitsHyphen ==
    phase = "returned" =>
        /\ Range(ret) = TagsByRule(call.text, LettersDigitsHyphen)
        /\ \A k \in DOMAIN ret : Range(ret[k]) \subseteq LettersDigitsHyphen

\* C14, amended: the inline tags are the maximal runs of letters, digits,
\* underscores and hyphens after a "#" at the start of the text or right
\* after whitespace; a "#" after any other character contributes nothing.
C14_TagsOfWordCharsHyphen ==
    phase = "returned" =>
        /\ Range(ret) = TagsByRule(call.text, WordChars \cup {"-"})
        /\ \A k \in DOMAIN ret : Range(ret[k]) \subseteq WordChars \cup {"-"}

\* A text with a tag that holds an underscore, and with a "#" after a
\* character that is not whitespace, whose word is no tag.
C14_Witness ==
    /\ phase = "returned"
    /\ Len(ret) = 1
    /\ "_" \in Range(ret[1])
    /\ \E p \in 2..(Len(call.text) - 1) :
          /\ call.text[p] = "#"
          /\ call.text[p - 1] \notin Whitespace
          /\ call.text[p + 1] \in WordChars
          /\ MaxRun(call.text, p + 1, WordChars \cup {"-"}) \notin Range(ret)

\* The strings of the tags field of the note's front matter, when the front
\* matter parses to a mapping that has the field.
FrontmatterTagStrings(t) ==
    LET m == FrontmatterBlock(t)
        data == yaml_safe_load(m[1])
        tagItems == SelectSeq(data.items, LAMBDA it : it.key = YKey(<<"t","a","g","s">>))
    IN  IF m = <<>> THEN {}
        ELSE IF data.kind # "dict" THEN {}
        ELSE IF tagItems = <<>> THEN {}
        ELSE Range(StringsOf(tagItems[1].value))

-----------------------------------------------------------------------------
(* Properties of scan_notes_parallel (checked under Spec) *)

\* The notes of the vault that process_note gives a record for.
MatchingNotes ==
    {p \in NoteFiles(files, excluded_dirs) :
        process_note(p, content[p], target_tags, source_dir, vault_index, files) # {}}

\* C16: whatever the order in which the workers complete, scan_notes_parallel
\* returns the notes sorted by path, each matching note once and no other,
\* and each with the set of attachments find_attachments resolves for it.
C16_ScanResultOrderFree ==
    /\ \A k \in 1..(Len(notes) - 1) : PathLess(notes[k].path, notes[k + 1].path)
    /\ phase = "confirm" =>
          /\ {notes[k].path : k \in DOMAIN notes} = MatchingNotes
          /\ Len(notes) = Cardinality(MatchingNotes)
          /\ \A k \in DOMAIN notes :
                Range(notes[k].attachments) =
                    find_attachments(content[notes[k].path].text, Parent(notes[k].path),
                                     source_dir, vault_index, files)

\* The worker of the note that sorts last completed first: the result is
\* sorted all the same.
C16_Witness ==
    /\ phase = "confirm"
    /\ Len(results) = 2
    /\ PathLess(results[2].path, results[1].path)
    /\ notes = <<results[2], results[1]>>
    /\ notes[1].attachments # <<>>
-----------------------------------------------------------------------------
(* build_vault_index applied to drawn vaults *)

\* Most files on disk when the index is built.
MaxIndexFiles == 4

\* The files there may be: x.p at the root and in a, X.P in a, x.p in the
\* excluded .git, below a/.git, and in .github, and a file outside the vault.
IndexFiles ==
    { <<Root, sV, sXP>>, <<Root, sV, sA, sXP>>, <<Root, sV, sA, sXPUpper>>,
      <<Root, sV, sGit, sXP>>, <<Root, sV, sA, sGit, sXP>>, <<Root, sV, sGithub, sXP>>,
      <<Root, sD, sXP>> }

InitIndex ==
    /\ \E fs \in SUBSET IndexFiles :
          /\ Cardinality(fs) <= MaxIndexFiles
          /\ files = fs
    /\ \E walk \in Orderings({p \in files : Under(p, source_dir)}) :
          call = [walk |-> walk, files |-> files]
    /\ ret = <<>>
    /\ phase = "call"
    /\ vault_index = <<>>
    /\ content = <<>>
    /\ dest_dir = <<>>
    /\ all_files = {}
    /\ results = <<>>
    /\ notes = <<>>
    /\ i = 1
    /\ moved_notes = 0
    /\ moved_atts = 0
    /\ errors = 0
    /\ log = <<>>
    /\ faults = 0
    /\ PoolIdle

\* vault_index = build_vault_index(source_dir, excluded)
CallBuildIndex ==
    /\ phase = "call"
    /\ vault_index' = build_vault_index(call.walk, excluded_dirs)
    /\ phase' = "returned"
    /\ UNCHANGED <<files, content, dest_dir, all_files, results, notes, i, moved_notes,
                   moved_atts, errors, log, faults, call, ret>>
    /\ UNCHANGED poolVars

NextIndex == CallBuildIndex

SpecIndex == InitIndex /\ [][NextIndex]_vars
-----------------------------------------------------------------------------
(* Properties of build_vault_index (checked under SpecIndex) *)

\* One of the segments of the path is an excluded name.
HasExcludedSegment(p) == \E k \in DOMAIN p : \E excl \in excluded_dirs : p[k] = excl

\* The position of a file in the traversal.
WalkPos(p) == CHOOSE k \in DOMAIN call.walk : call.walk[k] = p

\* C17: the index maps each lower-cased filename to the files under the root
\* with that filename in whatever case that have no excluded segment, each
\* once, in traversal order; a file is left out exactly when a segment of its
\* path equals an excluded name; the files on disk are what they were.
C17_IndexByLowerName ==
    phase = "returned" =>
        /\ \A key \in DOMAIN vault_index :
              LET list == vault_index[key]
              IN  /\ list # <<>>
                  /\ \A k \in DOMAIN list :
                        /\ list[k] \in Range(call.walk)
                        /\ Lower(Name(list[k])) = key
                        /\ ~HasExcludedSegment(list[k])
                  /\ \A j, k \in DOMAIN list : j < k => WalkPos(list[j]) < WalkPos(list[k])
        /\ \A p \in Range(call.walk) :
              IF HasExcludedSegment(p)
              THEN \A key \in DOMAIN vault_index : p \notin Range(vault_index[key])
              ELSE /\ Lower(Name(p)) \in DOMAIN vault_index
                   /\ p \in Range(vault_index[Lower(Name(p))])
        /\ files = call.files

\* An index whose list for x.p holds files of both cases in an order that is
\* not the sorted one, with the file in .github among them and the file in
\* .git left out.
C17_Witness ==
    /\ phase = "returned"
    /\ <<Root, sV, sGit, sXP>> \in Range(call.walk)
    /\ sXP \in DOMAIN vault_index
    /\ LET list == vault_index[sXP]
       IN  /\ Len(list) = 3
           /\ <<Root, sV, sGithub, sXP>> \in Range(list)
           /\ <<Root, sV, sA, sXPUpper>> \in Range(list)
           /\ PathLess(list[2], list[1])
-----------------------------------------------------------------------------
(* Properties of the name-only lookup (checked under SpecResolve) *)

\* The indexed files whose filename is that of the call's link, letter case aside.
SameNameFiles ==
    {p \in files : /\ Under(p, source_dir)
                   /\ \A k \in DOMAIN p : p[k] \notin excluded_dirs
                   /\ Lower(Name(p)) = Lower(Name(PathParts(call.link)))}

\* C18: when neither relative path is a file and exactly one indexed file has
\* the link's filename, letter case aside, that file is the result, whatever
\* directory the link names and whatever the case of the link and of the file.
C18_NameOnlyLookup ==
    (phase = "returned" /\ CallUsesIndex /\ Cardinality(SameNameFiles) = 1) =>
        ret[1] \in SameNameFiles

\* The link z/x.p, no directory z anywhere, and X.P in b the one file of that
\* name: it is the result.
C18_Witness ==
    /\ phase = "returned"
    /\ call.link = <<"z", "/">> \o sXP
    /\ SameNameFiles = { <<Root, sV, sB, sXPUpper>> }
    /\ ret[1] = <<Root, sV, sB, sXPUpper>>
    /\ Len(ret) = 1
-----------------------------------------------------------------------------
(* Properties of a failed resolution (checked under Spec) *)

\* The readable notes of the vault with a target tag among their tags.
TaggedNotes ==
    {p \in NoteFiles(files, excluded_dirs) :
        content[p].readable /\ target_tags \cap NoteTags(content[p].text) # {}}

\* Link l of note p resolves by no strategy: cleaned it is not empty, neither
\* relative path is a file, and the index has no key for its filename.
Unresolvable(p, l) ==
    LET clean == CleanLink(l)
    IN  /\ clean # <<>>
        /\ Resolve(JoinPath(Parent(p), clean)) \notin files
        /\ Resolve(JoinPath(source_dir, clean)) \notin files
        /\ Lower(Name(PathParts(clean))) \notin DOMAIN vault_index

\* C19: a link that neither relative strategy nor the index resolves gives
\* None; the note is listed all the same, its attachments are those of its
\* other links, and no error is counted.
C19_UnresolvedLinkOmitted ==
    phase = "confirm" =>
        \A p \in TaggedNotes :
            LET links == RawLinks(content[p].text)
            IN  \A j \in DOMAIN links :
                   Unresolvable(p, links[j]) =>
                       /\ resolve_attachment(links[j], Parent(p), source_dir,
                                             vault_index, files) = None
                       /\ \E k \in DOMAIN notes :
                             /\ notes[k].path = p
                             /\ Range(notes[k].attachments) =
                                    {AttachmentOf(links[m], Parent(p), source_dir,
                                                  vault_index, files) :
                                        m \in DOMAIN links \ {j}} \ {None}
                       /\ errors = 0

\* A listed note with the links x.p and y.p: there is no y.p in the vault, and
\* the note's attachments are the x.p alone.
C19_Witness ==
    /\ phase = "confirm"
    /\ NoteA \in TaggedNotes
    /\ Unresolvable(NoteA, <<"y", ".", "p">>)
    /\ \E k \in DOMAIN notes :
          /\ notes[k].path = NoteA
          /\ <<"y", ".", "p">> \in Range(RawLinks(content[NoteA].text))
          /\ Len(notes[k].attachments) = 1
          /\ Name(notes[k].attachments[1]) = sXP
-----------------------------------------------------------------------------
(* Properties of an unreadable note (checked under Spec) *)

\* The paths of the records collected so far.
ListedPaths == {results[k].path : k \in DOMAIN results}

\* C20: a note that cannot be read gives no record, and the scan goes on:
\* while it runs, the records are those of the tagged readable notes among
\* the notes processed so far; when it is over every note has been processed
\* and no error is counted.
C20_UnreadableNoteSkipped ==
    /\ \A k \in DOMAIN results : content[results[k].path].readable
    /\ phase = "scan" =>
          /\ ListedPaths = TaggedNotes \ all_files
          /\ errors = 0
    /\ phase = "confirm" =>
          /\ all_files = {}
          /\ {notes[k].path : k \in DOMAIN notes} = TaggedNotes
          /\ errors = 0

\* A vault with an unreadable note: the scan is over and the other note is listed.
C20_Witness ==
    /\ phase = "confirm"
    /\ ~content[NoteM].readable
    /\ NoteM \in NoteFiles(files, excluded_dirs)
    /\ NoteM \notin ListedPaths
    /\ NoteA \in ListedPaths
    /\ notes # <<>>
-----------------------------------------------------------------------------
(* Properties of malformed front matter (checked under SpecNote) *)

\* The wiki and markdown links of the text, without the front-matter links.
BodyLinks(t) == FindAll(WIKI_LINK_RE, t) \o FindAll(MD_LINK_RE, t)

\* C21: a front-matter block that fails to parse, or parses to something
\* that is no mapping, gives no tags and no links; the inline tags and the
\* wiki and markdown links of the text count as without it, and process_note
\* returns its record when an inline tag matches.
C21_MalformedFrontmatterIgnored ==
    (phase = "returned" /\ call.c.readable /\ MalformedFrontmatter(call.c.text)) =>
        LET t == call.c.text
            inline == Range(FindAll(TAG_RE, t))
            links == BodyLinks(t)
        IN  /\ extract_frontmatter_links(t) = <<>>
            /\ ret # {} <=> call.tags \cap inline # {}
            /\ \A r \in ret :
                  /\ r.matched_tags = call.tags \cap inline
                  /\ Range(r.attachments) =
                         {AttachmentOf(links[k], Parent(NoteA), source_dir, vault_index, files) :
                             k \in DOMAIN links} \ {None}

\* A note whose front matter does not parse and whose body is "#t [[x.p]]":
\* it is matched by t and x.p is its attachment.
C21_Witness ==
    /\ phase = "returned"
    /\ call.c.readable
    /\ MalformedFrontmatter(call.c.text)
    /\ yaml_safe_load(FrontmatterBlock(call.c.text)[1]) = YError
    /\ \E r \in ret :
          /\ r.matched_tags = {<<"t">>}
          /\ r.attachments = << <<Root, sV, sA, sXP>> >>
-----------------------------------------------------------------------------
(* Properties of repeated resolution (checked under SpecResolve) *)

-----------------------------------------------------------------------------
(* Properties of the move phase as a whole (checked under Spec) *)

\* C25: the move phase destroys no file: no move replaces a file that dest_dir
\* already holds, so every step leaves the number of files in the vault and
\* the destination together as it was.
C25_NoFileDestroyed == [][Cardinality(files') = Cardinality(files)]_vars

\* C26: once a note is counted as moved, every attachment of its list is in
\* dest_dir: none is still at a place outside it.
C26_AttachmentsInDest ==
    \A k \in DOMAIN log :
        log[k].outcome = "moved" =>
            \A att \in Range(notes[k].attachments) :
                att \in files => Parent(att) = dest_dir

\* C29: with dest_dir inside the vault, a matching note that lies in dest_dir
\* is left at its path under its name, and so is an attachment that lies there.
C29_InDestLeftAlone ==
    Under(dest_dir, source_dir) =>
        \A k \in DOMAIN log :
            /\ Parent(log[k].note) = dest_dir => log[k].note \in files
            /\ \A att \in Range(notes[k].attachments) :
                  Parent(att) = dest_dir => att \in files

\* C30: when the loop is over, moved_notes + errors is the number of notes: each
\* iteration added one to exactly one of the two; a note counted as moved is in
\* dest_dir and no longer at its path; a note whose attachment move raised is
\* counted as an error and is still at its path.
C30_EveryNoteCountedOnce ==
    /\ (phase = "done" /\ log # <<>>) => moved_notes + errors = Len(notes)
    /\ moved_notes + errors = Len(log)
    /\ \A k \in DOMAIN log :
          /\ log[k].outcome = "moved" =>
                /\ Parent(log[k].dest_note) = dest_dir
                /\ log[k].dest_note \in files
                /\ log[k].dest_note # log[k].note => log[k].note \notin files
          /\ log[k].failAt \in 1..Len(notes[k].attachments) =>
                /\ log[k].outcome = "error"
                /\ ~log[k].relocated
                /\ log[k].note \in files
-----------------------------------------------------------------------------
(* Properties of the attachment list's location (checked under SpecNote) *)

\* C27: every path of a note's attachment list lies under the vault root and
\* has no excluded directory among its segments, whatever the links of the
\* note are: no link with ".." segments and no link into an excluded
\* directory selects a file outside the vault or inside an excluded directory.
C27_AttachmentsInsideVault ==
    phase = "returned" =>
        \A r \in ret : \A att \in Range(r.attachments) :
            /\ Under(att, source_dir)
            /\ ~IsExcluded(att, excluded_dirs)
-----------------------------------------------------------------------------
(* src/renamer.py: FileRenamer.process_file, HistoryManager, undo_last_session *)

UpperChar(c) ==
    LET k == FindChar(LowerLetters, c, 1)
    IN  IF k = 0 THEN c ELSE UpperLetters[k]

\* str.isupper(): a cased character, and no lower-case one.
IsUpper(w) ==
    /\ \E k \in DOMAIN w : FindChar(UpperLetters, w[k], 1) # 0
    /\ \A k \in DOMAIN w : FindChar(LowerLetters, w[k], 1) = 0

\* str.capitalize()
Capitalize(w) == IF w = <<>> THEN w ELSE <<UpperChar(Head(w))>> \o Lower(Tail(w))

\* str.replace(a, b) for single characters.
Replace(s, a, b) == [k \in 1..Len(s) |-> IF s[k] = a THEN b ELSE s[k]]

\* " ".join(words)
RECURSIVE JoinWords(_)
JoinWords(words) ==
    IF words = <<>> THEN <<>>
    ELSE IF Len(words) = 1 THEN Head(words)
    ELSE Head(words) \o <<" ">> \o JoinWords(Tail(words))

\* FileRenamer._to_title_case: a word all in capitals and longer than one
\* character is kept, every other word is capitalized.
to_title_case(text) ==
    LET words == SelectSeq(Split(text, " "), LAMBDA w : w # <<>>)
    IN  JoinWords([k \in DOMAIN words |->
                      IF IsUpper(words[k]) /\ Len(words[k]) > 1 THEN words[k]
                      ELSE Capitalize(words[k])])

\* FileRenamer.clean_name for a stem of letters, digits and underscores that
\* is no PDF: underscores and dots become spaces, no junk pattern and no
\* author/title heuristic applies to such a stem, the words are put in title
\* case, and a result of at most two characters gives the stem back.
clean_name(filepath) ==
    LET stem == Stem(filepath)
        name == to_title_case(Replace(Replace(stem, "_", " "), ".", " "))
    IN  IF Len(name) > 2 THEN name ELSE stem

\* The directory the renamer is run on, and its history file.
directory == <<Root, <<"r">>>>
history_file == directory \o << <<".","r","e","n","a","m","e","r","_","h","i","s","t","o","r","y",".","j","s","o","n">> >>

sTxt == <<".", "t", "x", "t">>
sDoc == <<".", "d", "o", "c">>

\* The files the directory may hold: abc.txt, aBc.txt, Abc.txt, bca.doc.
RenamerFiles ==
    { directory \o <<<<"a", "b", "c">> \o sTxt>>,
      directory \o <<<<"a", "B", "c">> \o sTxt>>,
      directory \o <<<<"A", "b", "c">> \o sTxt>>,
      directory \o <<<<"b", "c", "a">> \o sDoc>> }

\* The extensions a session may be run with (--extensions).
ExtensionSets == { {sTxt}, {sDoc}, {sTxt, sDoc} }

\* FileRenamer.run: the files it submits (not recursive): regular files of the
\* directory with a supported extension whose name does not start with ".".
RenamerListing(fs, extensions) ==
    {f \in fs : /\ Parent(f) = directory
                /\ Lower(Suffix(f)) \in extensions
                /\ Head(Name(f)) # "."}

\* process_file's conflict resolution: the first new_stem_counter.ext that
\* does not exist.
RECURSIVE RenamerCandidate(_, _, _, _, _)
RenamerCandidate(fs, parent, new_stem, ext, counter) ==
    LET candidate == parent \o <<new_stem \o <<"_">> \o IntToStr(counter) \o ext>>
    IN  IF candidate \notin fs THEN candidate
        ELSE RenamerCandidate(fs, parent, new_stem, ext, counter + 1)

\* process_file: new_path, as it is when the rename is about to be made.
RenamerNewPath(fs, filepath) ==
    LET new_stem == clean_name(filepath)
        ext == Suffix(filepath)
        new_path == Parent(filepath) \o <<new_stem \o ext>>
    IN  IF new_path \in fs /\ new_path # filepath
        THEN RenamerCandidate(fs, Parent(filepath), new_stem, ext, 1)
        ELSE new_path

\* A worker of a pool that has not started on its file.
Submitted(fs) == [w \in fs |-> [pc |-> "start", target |-> None]]

\* Every worker of the pool has returned.
AllReturned == \A w \in DOMAIN workers : workers[w].pc \in {"skipped", "moved", "error"}

\* process_file up to the point where new_path is settled: skipped when the
\* cleaned stem is the old one.
RenamerCheck(w) ==
    /\ call.script = "renamer"
    /\ w \in DOMAIN workers
    /\ workers[w].pc = "start"
    /\ workers' = [workers EXCEPT ![w] =
                      IF clean_name(w) = Stem(w) THEN [pc |-> "skipped", target |-> None]
                      ELSE [pc |-> "chosen", target |-> RenamerNewPath(files, w)]]
    /\ UNCHANGED <<files, content, dest_dir, phase, vault_index, all_files, results, notes,
                   i, moved_notes, moved_atts, errors, log, faults, call, ret, history, now>>

\* filepath.rename(new_path), which replaces a file at new_path, and
\* history_manager.record(filepath, new_path); rename raises when the file is
\* no longer there.
RenamerRename(w) ==
    /\ call.script = "renamer"
    /\ w \in DOMAIN workers
    /\ workers[w].pc = "chosen"
    /\ IF w \in files
       THEN /\ files' = MoveFile(files, w, workers[w].target)
            /\ history' = Append(history, [timestamp |-> now, original |-> w,
                                           renamed |-> workers[w].target])
            /\ now' = now + 1
            /\ workers' = [workers EXCEPT ![w].pc = "moved"]
       ELSE /\ workers' = [workers EXCEPT ![w].pc = "error"]
            /\ UNCHANGED <<files, history, now>>
    /\ UNCHANGED <<content, dest_dir, phase, vault_index, all_files, results, notes,
                   i, moved_notes, moved_atts, errors, log, faults, call, ret>>

\* Most renames the clock of the model counts.
MaxRenames == 4

\* main() and FileRenamer.run up to the submission of the files: a new process,
\* so a new HistoryManager with an empty history.
StartSession(extensions) ==
    /\ phase = "idle"
    /\ LET listing == RenamerListing(files, extensions)
       IN  /\ listing # {}
           /\ now + Cardinality(listing) <= MaxRenames
           /\ all_files' = listing
           /\ workers' = Submitted(listing)
    /\ history' = <<>>
    /\ phase' = "run"
    /\ UNCHANGED <<files, content, dest_dir, vault_index, results, notes, i, moved_notes,
                   moved_atts, errors, log, faults, call, ret, now>>

\* HistoryManager.save at the end of run(): nothing when the session recorded
\* no rename, else the history of the file, if there is one, with the
\* session's history appended.  log gets the renames of each session saved.
SaveHistory ==
    /\ phase = "run"
    /\ AllReturned
    /\ IF history = <<>>
       THEN UNCHANGED <<files, content, log>>
       ELSE LET existing_history == IF history_file \in files THEN content[history_file]
                                    ELSE <<>>
            IN  /\ content' = [p \in {history_file} |-> existing_history \o history]
                /\ files' = files \cup {history_file}
                /\ log' = Append(log, history)
    /\ phase' = "idle"
    /\ workers' = <<>>
    /\ all_files' = {}
    /\ history' = <<>>
    /\ UNCHANGED <<dest_dir, vault_index, results, notes, i, moved_notes, moved_atts,
                   errors, faults, call, ret, now>>

\* history.sort(key=timestamp, reverse=True): newest first.
RECURSIVE SortedNewestFirst(_)
SortedNewestFirst(h) ==
    IF h = <<>> THEN <<>>
    ELSE LET last == h[Len(h)]
             front == SortedNewestFirst(SubSeq(h, 1, Len(h) - 1))
             before == SelectSeq(front, LAMBDA e : e.timestamp >= last.timestamp)
             after == SelectSeq(front, LAMBDA e : e.timestamp < last.timestamp)
         IN  before \o <<last>> \o after

\* The loop of undo_last_session over the entries from entry k on: an entry
\* whose renamed file exists is renamed back to its original path.
RECURSIVE UndoEntries(_, _, _)
UndoEntries(fs, entries, k) ==
    IF k > Len(entries) THEN fs
    ELSE LET entry == entries[k]
         IN  IF entry.renamed \in fs
             THEN UndoEntries(MoveFile(fs, entry.renamed, entry.original), entries, k + 1)
             ELSE UndoEntries(fs, entries, k + 1)

\* undo_last_session(directory) with a history file: every entry of the file
\* is undone, newest first, and the file is removed.
Undo ==
    /\ phase = "idle"
    /\ history_file \in files
    /\ files' = UndoEntries(files, SortedNewestFirst(content[history_file]), 1)
                    \ {history_file}
    /\ content' = <<>>
    /\ UNCHANGED <<dest_dir, phase, vault_index, all_files, results, notes, i, moved_notes,
                   moved_atts, errors, log, faults, call, ret, history, workers, now>>

\* A directory before the first session.
InitUndo ==
    /\ \E fs \in SUBSET RenamerFiles : fs # {} /\ files = fs
    /\ content = <<>>
    /\ phase = "idle"
    /\ call = [script |-> "renamer"]
    /\ ret = <<>>
    /\ dest_dir = <<>>
    /\ vault_index = <<>>
    /\ all_files = {}
    /\ results = <<>>
    /\ notes = <<>>
    /\ i = 1
    /\ moved_notes = 0
    /\ moved_atts = 0
    /\ errors = 0
    /\ log = <<>>
    /\ faults = 0
    /\ PoolIdle

NextUndo ==
    \/ \E extensions \in ExtensionSets : StartSession(extensions)
    \/ \E w \in RenamerFiles : RenamerCheck(w)
    \/ \E w \in RenamerFiles : RenamerRename(w)
    \/ SaveHistory
    \/ Undo

SpecUndo == InitUndo /\ [][NextUndo]_vars
-----------------------------------------------------------------------------
(* Properties of the renamer's undo (checked under SpecUndo) *)

\* The renames of the sessions saved before the last one.
EarlierRenames == UNION {Range(log[k]) : k \in 1..(Len(log) - 1)}

\* The renames of the last session saved whose new path no other rename of
\* that session has.
LastRenames ==
    LET last == Range(log[Len(log)])
    IN  {e \in last : \A o \in last : o.renamed = e.renamed => o = e}

\* C23: undo reverts the last session: the files the most recent session
\* renamed are back at their original paths, and a file an earlier session
\* renamed stays where that session put it.
C23_UndoRevertsLastSessionOnly ==
    [][(Undo /\ log # <<>>) =>
          /\ \A e \in LastRenames :
                e.renamed \in files => (e.original \in files' /\ e.renamed \notin files')
          /\ \A e \in EarlierRenames :
                e.renamed \in files => e.renamed \in files']_vars
-----------------------------------------------------------------------------
(* src/red.py: REDRemover.analyze_directory and find_candidates *)

\* REDConfig.exclude
red_exclude ==
    { <<".", "g", "i", "t">>, <<".", "s", "v", "n">>, <<".", "v", "s", "c", "o", "d", "e">>,
      <<"_", "_", "p", "y", "c", "a", "c", "h", "e", "_", "_">>,
      <<"n", "o", "d", "e", "_", "m", "o", "d", "u", "l", "e", "s">> }

\* DEFAULT_JUNK_FILES
junk_names ==
    { <<".", "d", "s", "_", "s", "t", "o", "r", "e">>,
      <<"t", "h", "u", "m", "b", "s", ".", "d", "b">>,
      <<".", "t", "h", "u", "m", "b", "s", ".", "d", "b">>,
      <<"d", "e", "s", "k", "t", "o", "p", ".", "i", "n", "i">>,
      <<".", "p", "y", "t", "h", "o", "n", "-", "v", "e", "r", "s", "i", "o", "n">>,
      <<".", "i", "d", "e", "a">>, <<".", "p", "r", "o", "j", "e", "c", "t">>,
      <<".", "s", "e", "t", "t", "i", "n", "g", "s">> }

\* DEFAULT_JUNK_EXTS
junk_exts ==
    { <<".", "t", "m", "p">>, <<".", "l", "o", "g">>, <<".", "b", "a", "k">>,
      <<".", "o", "l", "d">>, <<".", "c", "a", "c", "h", "e">>, <<".", "s", "w", "p">> }

\* REDRemover.is_junk for a regular file.
is_junk(path) == Lower(Name(path)) \in junk_names \/ Lower(Suffix(path)) \in junk_exts

\* REDRemover.analyze_directory: the entry for dir_path, as a set: empty for
\* None.  A directory with a subdirectory gives None, whatever the
\* subdirectory holds.
analyze_directory(dir_path, dirs, fs) ==
    IF \E k \in DOMAIN dir_path : dir_path[k] \in red_exclude THEN {}
    ELSE LET subdirs == {d \in dirs : Parent(d) = dir_path}
             dir_files == {f \in fs : Parent(f) = dir_path}
             junk_files == {f \in dir_files : is_junk(f)}
         IN  IF subdirs # {} THEN {}
             ELSE IF dir_files = junk_files
             THEN {[path |-> dir_path,
                    type |-> IF junk_files # {} THEN "JUNK-ONLY" ELSE "EMPTY",
                    files |-> junk_files]}
             ELSE {}

\* all_dirs.sort(key=len(parts), reverse=True): deepest first, directories of
\* one depth in the order they had.
RECURSIVE SortedDeepestFirst(_)
SortedDeepestFirst(ds) ==
    IF ds = <<>> THEN <<>>
    ELSE LET last == ds[Len(ds)]
             front == SortedDeepestFirst(SubSeq(ds, 1, Len(ds) - 1))
             before == SelectSeq(front, LAMBDA d : Len(d) >= Len(last))
             after == SelectSeq(front, LAMBDA d : Len(d) < Len(last))
         IN  before \o <<last>> \o after

\* The loop of find_candidates over all_dirs from directory k on: the entries
\* appended to self.candidates.  Nothing is removed during the sweep.
RECURSIVE SweepFrom(_, _, _, _)
SweepFrom(all_dirs, k, dirs, fs) ==
    IF k > Len(all_dirs) THEN <<>>
    ELSE LET res == analyze_directory(all_dirs[k], dirs, fs)
         IN  (IF res = {} THEN <<>> ELSE <<CHOOSE r \in res : TRUE>>)
                 \o SweepFrom(all_dirs, k + 1, dirs, fs)

\* find_candidates, rglob yielding the directories in the order of walk.
find_candidates(walk, dirs, fs) == SweepFrom(SortedDeepestFirst(walk), 1, dirs, fs)

\* The root the remover is run on.
red_root == <<Root, <<"t">>>>

\* Most directories below the root.
MaxTreeDirs == 4

\* The directories there may be below the root: a, a/b, a/b/c, d, d/c, .git
TreeDirs ==
    { red_root \o <<sA>>, red_root \o <<sA, sB>>, red_root \o <<sA, sB, sC>>,
      red_root \o <<sD>>, red_root \o <<sD, sC>>, red_root \o <<sGit>> }

\* The files there may be: a junk file x.tmp in a/b/c, in d and in .git, and
\* a file x.p in d.
TreeFiles ==
    { red_root \o <<sA, sB, sC, <<"x", ".", "t", "m", "p">>>>,
      red_root \o <<sD, <<"x", ".", "t", "m", "p">>>>,
      red_root \o <<sGit, <<"x", ".", "t", "m", "p">>>>,
      red_root \o <<sD, sXP>> }

\* A tree: every directory but the root has its parent in it, and every file
\* its directory.
InitRed ==
    /\ \E ds \in SUBSET TreeDirs, fs \in SUBSET TreeFiles :
          /\ Cardinality(ds) <= MaxTreeDirs
          /\ \A d \in ds : Parent(d) \in ds \cup {red_root}
          /\ \A f \in fs : Parent(f) \in ds
          /\ call = [dirs |-> ds]
          /\ files = fs
    /\ ret = <<>>
    /\ phase = "call"
    /\ content = <<>>
    /\ dest_dir = <<>>
    /\ vault_index = <<>>
    /\ all_files = {}
    /\ results = <<>>
    /\ notes = <<>>
    /\ i = 1
    /\ moved_notes = 0
    /\ moved_atts = 0
    /\ errors = 0
    /\ log = <<>>
    /\ faults = 0
    /\ PoolIdle

\* remover.find_candidates(): self.candidates afterwards.
FindCandidates ==
    /\ phase = "call"
    /\ \E walk \in Orderings(call.dirs) : ret' = find_candidates(walk, call.dirs, files)
    /\ phase' = "returned"
    /\ UNCHANGED <<files, content, dest_dir, vault_index, all_files, results, notes, i,
                   moved_notes, moved_atts, errors, log, faults, call, poolVars>>

NextRed == FindCandidates

SpecRed == InitRed /\ [][NextRed]_vars
-----------------------------------------------------------------------------
(* Properties of the sweep (checked under SpecRed) *)

\* The paths of the candidates reported.
CandidatePaths == {ret[k].path : k \in DOMAIN ret}

\* C24: one sweep handles nested empty directories: a directory that holds
\* nothing but directories, each of them reported as a candidate, is reported
\* as a candidate by the same sweep.
C24_NestedEmptyReported ==
    phase = "returned" =>
        \A d \in call.dirs :
            LET subdirs == {s \in call.dirs : Parent(s) = d}
            IN  (/\ subdirs # {}
                 /\ subdirs \subseteq CandidatePaths
                 /\ \A f \in files : Parent(f) # d)
                    => d \in CandidatePaths
-----------------------------------------------------------------------------
(* The pool workers of src/file_mover.py, src/file_sorter.py and             *)
(* src/file_organizer.py; each worker checks for a free target and then      *)
(* moves, and the pool runs the workers in any interleaving.                  *)

\* The directory the three tools scan.
pool_source == <<Root, <<"s">>>>

\* file_mover.move_task: the loop that appends _counter to the stem until the
\* name is free.
RECURSIVE MoverCandidate(_, _, _, _, _)
MoverCandidate(fs, parent, base, ext, counter) ==
    LET dest == parent \o <<base \o <<"_">> \o IntToStr(counter) \o ext>>
    IN  IF dest \notin fs THEN dest ELSE MoverCandidate(fs, parent, base, ext, counter + 1)

\* file_mover.move_task: dest, flattened (org_choice "1") or with the path
\* relative to the source kept.
MoverDest(fs, path, org_choice) ==
    LET rel_path == SubSeq(path, Len(pool_source) + 1, Len(path))
        dest == IF org_choice = "1" THEN dest_dir \o <<Name(path)>> ELSE dest_dir \o rel_path
    IN  IF dest \in fs THEN MoverCandidate(fs, Parent(dest), Stem(dest), Suffix(dest), 1)
        ELSE dest

\* move_task up to the end of the conflict resolution.
MoveTaskCheck(w) ==
    /\ call.script = "file_mover"
    /\ w \in DOMAIN workers
    /\ workers[w].pc = "start"
    /\ workers' = [workers EXCEPT ![w] =
                      [pc |-> "chosen", target |-> MoverDest(files, w, call.org_choice)]]
    /\ UNCHANGED <<files, content, dest_dir, phase, vault_index, all_files, results, notes,
                   i, moved_notes, moved_atts, errors, log, faults, call, ret, history, now>>

\* move_task: shutil.move(file_meta.path, dest), which replaces a file at dest.
MoveTaskMove(w) ==
    /\ call.script = "file_mover"
    /\ w \in DOMAIN workers
    /\ workers[w].pc = "chosen"
    /\ IF w \in files
       THEN /\ files' = MoveFile(files, w, workers[w].target)
            /\ workers' = [workers EXCEPT ![w].pc = "moved"]
       ELSE /\ workers' = [workers EXCEPT ![w].pc = "error"]
            /\ UNCHANGED files
    /\ UNCHANGED <<content, dest_dir, phase, vault_index, all_files, results, notes, i,
                   moved_notes, moved_atts, errors, log, faults, call, ret, history, now>>

\* file_sorter.get_unique_path from counter on.
RECURSIVE SorterCandidate(_, _, _, _, _)
SorterCandidate(fs, parent, base, suffix, counter) ==
    LET new_path == parent \o <<base \o <<"_">> \o IntToStr(counter) \o suffix>>
    IN  IF new_path \notin fs THEN new_path
        ELSE SorterCandidate(fs, parent, base, suffix, counter + 1)

\* file_sorter.get_unique_path
get_unique_path(fs, path) ==
    IF path \notin fs THEN path
    ELSE SorterCandidate(fs, Parent(path), Stem(path), Suffix(path), 1)

sCollisions == <<"c", "o", "l", "l", "i", "s", "i", "o", "n", "s">>

\* FileSorter.process_file: target_path, in the folder of the extension, or
\* in the collisions folder under a unique name when that exists.
SorterTarget(fs, file_path) ==
    LET stripped == LStrip(Lower(Suffix(file_path)), {"."})
        ext == IF stripped = <<>> THEN <<"n","o","_","e","x","t","e","n","s","i","o","n">>
               ELSE stripped
        target_path == dest_dir \o <<ext, Name(file_path)>>
    IN  IF target_path \in fs
        THEN get_unique_path(fs, dest_dir \o <<sCollisions, Name(file_path)>>)
        ELSE target_path

\* FileSorter.process_file up to the choice of target_path; a file below the
\* destination is skipped.
SorterCheck(w) ==
    /\ call.script = "file_sorter"
    /\ w \in DOMAIN workers
    /\ workers[w].pc = "start"
    /\ workers' = [workers EXCEPT ![w] =
                      IF Under(w, dest_dir) THEN [pc |-> "skipped", target |-> None]
                      ELSE [pc |-> "chosen", target |-> SorterTarget(files, w)]]
    /\ UNCHANGED <<files, content, dest_dir, phase, vault_index, all_files, results, notes,
                   i, moved_notes, moved_atts, errors, log, faults, call, ret, history, now>>

\* FileSorter.process_file: shutil.move(str(file_path), str(target_path))
SorterMove(w) ==
    /\ call.script = "file_sorter"
    /\ w \in DOMAIN workers
    /\ workers[w].pc = "chosen"
    /\ IF w \in files
       THEN /\ files' = MoveFile(files, w, workers[w].target)
            /\ workers' = [workers EXCEPT ![w].pc = "moved"]
       ELSE /\ workers' = [workers EXCEPT ![w].pc = "error"]
            /\ UNCHANGED files
    /\ UNCHANGED <<content, dest_dir, phase, vault_index, all_files, results, notes, i,
                   moved_notes, moved_atts, errors, log, faults, call, ret, history, now>>

sOthers == <<"O", "t", "h", "e", "r", "s">>
sDocuments == <<"D", "o", "c", "u", "m", "e", "n", "t", "s">>

\* FileOrganizer.get_category, for the extensions of the files drawn: .txt and
\* .doc are Documents, an extension of no category is Others.
get_category(file_path) ==
    IF Lower(Suffix(file_path)) \in {sTxt, sDoc} THEN sDocuments ELSE sOthers

\* FileOrganizer.get_safe_path from counter on.
RECURSIVE SafeCandidate(_, _, _, _, _)
SafeCandidate(fs, parent, stem, suffix, counter) ==
    LET new_path == parent \o <<stem \o <<"_">> \o IntToStr(counter) \o suffix>>
    IN  IF new_path \notin fs THEN new_path
        ELSE SafeCandidate(fs, parent, stem, suffix, counter + 1)

\* FileOrganizer.get_safe_path
get_safe_path(fs, target_path) ==
    IF target_path \notin fs THEN target_path
    ELSE SafeCandidate(fs, Parent(target_path), Stem(target_path), Suffix(target_path), 1)

\* FileOrganizer.move_single_file up to the choice of target_path (no date
\* folders); a log file of the organizer is skipped.
OrganizerCheck(w) ==
    /\ call.script = "file_organizer"
    /\ w \in DOMAIN workers
    /\ workers[w].pc = "start"
    /\ workers' = [workers EXCEPT ![w] =
                      IF StartsWith(Name(w), <<"o", "r", "g", "_", "l", "o", "g", "_">>)
                      THEN [pc |-> "skipped", target |-> None]
                      ELSE [pc |-> "chosen",
                            target |-> get_safe_path(files, pool_source
                                                     \o <<get_category(w), Name(w)>>)]]
    /\ UNCHANGED <<files, content, dest_dir, phase, vault_index, all_files, results, notes,
                   i, moved_notes, moved_atts, errors, log, faults, call, ret, history, now>>

\* FileOrganizer.move_single_file: shutil.move(file_path, target_path).  (The
\* file_path.stat() of the MoveOperation built afterwards raises, the file no
\* longer being at file_path: the worker returns None, the file stays moved.)
OrganizerMove(w) ==
    /\ call.script = "file_organizer"
    /\ w \in DOMAIN workers
    /\ workers[w].pc = "chosen"
    /\ IF w \in files
       THEN /\ files' = MoveFile(files, w, workers[w].target)
            /\ workers' = [workers EXCEPT ![w].pc = "moved"]
       ELSE /\ workers' = [workers EXCEPT ![w].pc = "error"]
            /\ UNCHANGED files
    /\ UNCHANGED <<content, dest_dir, phase, vault_index, all_files, results, notes, i,
                   moved_notes, moved_atts, errors, log, faults, call, ret, history, now>>

\* Most files a pool is given.
MaxPoolFiles == 2

\* The files the three tools may find in a recursive scan: x.p in a, in b and
\* at the top of the source, and y.txt.
PoolSources ==
    { pool_source \o <<sA, sXP>>, pool_source \o <<sB, sXP>>, pool_source \o <<sXP>>,
      pool_source \o <<<<"y">> \o sTxt>> }

\* The files that may lie where the tool puts x.p before it runs.
PoolTargets(script) ==
    IF script = "file_mover" THEN { <<Root, sD, sXP>> }
    ELSE IF script = "file_sorter"
    THEN { <<Root, sD, <<"p">>, sXP>>, <<Root, sD, sCollisions, sXP>> }
    ELSE IF script = "file_organizer" THEN { pool_source \o <<sOthers, sXP>> }
    ELSE {}

\* The calls: the tool, and for the file mover the organization choice.
PoolCalls ==
    { [script |-> "renamer", org_choice |-> "1"],
      [script |-> "file_mover", org_choice |-> "1"],
      [script |-> "file_mover", org_choice |-> "2"],
      [script |-> "file_sorter", org_choice |-> "1"],
      [script |-> "file_organizer", org_choice |-> "1"] }

\* A tool has scanned its directory and submitted every file to its pool.
InitPool ==
    /\ call \in PoolCalls
    /\ \E given \in SUBSET (IF call.script = "renamer" THEN RenamerFiles ELSE PoolSources),
          there \in SUBSET PoolTargets(call.script) :
          /\ given # {}
          /\ Cardinality(given) <= MaxPoolFiles
          /\ files = given \cup there
          /\ all_files = given
          /\ workers = Submitted(given)
    /\ dest_dir = <<Root, sD>>
    /\ history = <<>>
    /\ now = 0
    /\ phase = "run"
    /\ ret = <<>>
    /\ content = <<>>
    /\ vault_index = <<>>
    /\ results = <<>>
    /\ notes = <<>>
    /\ i = 1
    /\ moved_notes = 0
    /\ moved_atts = 0
    /\ errors = 0
    /\ log = <<>>
    /\ faults = 0

NextPool ==
    \E w \in RenamerFiles \cup PoolSources :
        \/ RenamerCheck(w)
        \/ RenamerRename(w)
        \/ MoveTaskCheck(w)
        \/ MoveTaskMove(w)
        \/ SorterCheck(w)
        \/ SorterMove(w)
        \/ OrganizerCheck(w)
        \/ OrganizerMove(w)

SpecPool == InitPool /\ [][NextPool]_vars
-----------------------------------------------------------------------------
(* Properties of the pools (checked under SpecPool) *)

\* C28: in each of the four tools, under every interleaving of the workers, no
\* two workers move their files to the same destination path.
C28_NoSharedDestination ==
    \A w1 \in DOMAIN workers, w2 \in DOMAIN workers :
        (w1 # w2 /\ workers[w1].pc = "moved" /\ workers[w2].pc = "moved")
            => workers[w1].target # workers[w2].target

====
